---- MODULE Spec2Model ----
(***************************************************************************)
(* A model of the blaze front end: Scanner (src/src/scanner.rs), Parser    *)
(* (src/src/parser.rs), Generator (src/src/generator.rs) and the driver    *)
(* (src/src/main.rs).                                                      *)
(*                                                                         *)
(* A source text is a sequence of characters, each character a one-letter  *)
(* string; a lexeme is the sub-sequence of the source a token covers.      *)
(* Offsets (start, current) are 0-based as in the code; TLA+ sequences are *)
(* 1-based, so the character at offset i is source[i + 1].                 *)
(***************************************************************************)
EXTENDS Integers, Sequences, FiniteSets, TLC

VARIABLES
    pc,         \* position of the program: which loop or stage is running
    file,       \* contents of the script file named by the first argument
    scanner,    \* the fields of Scanner
    scan_out,   \* what Scanner::scan returned: (tokens, errors)
    parser,     \* the fields of Parser and the locals of Parser::parse
    parse_out,  \* what Parser::parse returned: (statements, errors)
    generator,  \* the fields of Generator
    gen_out,    \* what Generator::generate returned: (output, errors)
    disk,       \* what fs::write put in the destination file, or Unwritten
    rustc,      \* whether the external compiler has been invoked
    exit_code   \* Some(status) once the process has exited, None before

vars == <<pc, file, scanner, scan_out, parser, parse_out, generator, gen_out,
          disk, rustc, exit_code>>

----------------------------------------------------------------------------
(* Characters *)

\* char::is_ascii_digit
Digits == {"0", "1", "2", "3", "4", "5", "6", "7", "8", "9"}

\* the identifier start characters of scan_token: 'a'..='z' | 'A'..='Z' | '_'
Letters ==
    {"a", "b", "c", "d", "e", "f", "g", "h", "i", "j", "k", "l", "m", "n",
     "o", "p", "q", "r", "s", "t", "u", "v", "w", "x", "y", "z",
     "A", "B", "C", "D", "E", "F", "G", "H", "I", "J", "K", "L", "M", "N",
     "O", "P", "Q", "R", "S", "T", "U", "V", "W", "X", "Y", "Z", "_"}

\* the '\0' that peek, peek_next and advance return past the end of the source
NUL == "\\0"

\* the text of a sequence of characters
RECURSIVE Str(_)
Str(chars) ==
    IF chars = <<>> THEN "" ELSE Head(chars) \o Str(Tail(chars))

----------------------------------------------------------------------------
(* Scanner *)

NoTokens == <<>>
NoErrors == <<>>

Token(kind, lexeme, line) == [kind |-> kind, lexeme |-> lexeme, line |-> line]

SyntaxError(line, location, message) ==
    [line |-> line, location |-> location, message |-> message]

Scanner_new(source) ==
    [source  |-> source,
     tokens  |-> NoTokens,
     errors  |-> NoErrors,
     start   |-> 0,
     current |-> 0,
     line    |-> 1,
     parens  |-> 0]

Scanner_is_at_end(s) == s.current >= Len(s.source)

\* self.source.chars().nth(i).unwrap_or('\0')
CharAt(s, i) == IF i < Len(s.source) THEN s.source[i + 1] ELSE NUL

Scanner_peek(s) == CharAt(s, s.current)

Scanner_peek_next(s) == CharAt(s, s.current + 1)

\* advance moves the cursor; the character it returns is AdvancedChar
Scanner_advance(s) == [s EXCEPT !.current = @ + 1]

AdvancedChar(s) == CharAt(s, s.current)

\* compare: whether the guard matches; when it does the cursor moves by one
Scanner_compare(s, expected) ==
    ~Scanner_is_at_end(s) /\ Scanner_peek(s) = expected

\* the characters from start, current - start of them
Lexeme(s) == SubSeq(s.source, s.start + 1, s.current)

add_token(s, kind) ==
    [s EXCEPT !.tokens = Append(@, Token(kind, Lexeme(s), s.line))]

\* an add_error that also gives up on the rest of the source: under it C18
\* fails
add_error_and_stop(s, message) ==
    [s EXCEPT !.errors = Append(@, SyntaxError(s.line, "", message)),
              !.current = Len(s.source)]

add_error(s, message) ==
    [s EXCEPT !.errors = Append(@, SyntaxError(s.line, "", message))]

NoSemicolonAfter == {"LeftBrace", "RightBrace", "Semicolon"}

\* a terminator appended whatever the last token is: under it C2 fails
add_semicolon_always(s) ==
    [s EXCEPT !.tokens = Append(@, Token("Semicolon", <<";">>, s.line))]

add_semicolon(s) ==
    IF s.tokens # <<>> /\ s.tokens[Len(s.tokens)].kind \notin NoSemicolonAfter
    THEN [s EXCEPT !.tokens = Append(@, Token("Semicolon", <<";">>, s.line))]
    ELSE s

\* a comment loop that also consumes the character after the comment, newline
\* or not: under it the cursor leaves the source and C1 fails
RECURSIVE comment_through_newline(_)
comment_through_newline(s) ==
    IF ~Scanner_is_at_end(s) /\ Scanner_peek(s) # "\n"
    THEN comment_through_newline(Scanner_advance(s))
    ELSE Scanner_advance(s)

RECURSIVE scan_comment(_)
scan_comment(s) ==
    IF ~Scanner_is_at_end(s) /\ Scanner_peek(s) # "\n"
    THEN scan_comment(Scanner_advance(s))
    ELSE s

scan_newline(s) ==
    LET t == IF s.parens <= 0 THEN add_semicolon(s) ELSE s
    IN  [t EXCEPT !.line = @ + 1]

\* the while loop of scan_string
RECURSIVE scan_string_body(_)
scan_string_body(s) ==
    IF ~Scanner_is_at_end(s) /\ Scanner_peek(s) # "\""
    THEN scan_string_body(
             Scanner_advance(
                 IF Scanner_peek(s) = "\n" THEN [s EXCEPT !.line = @ + 1] ELSE s))
    ELSE s

scan_string(s) ==
    LET t == scan_string_body(s)
    IN  IF Scanner_is_at_end(t)
        THEN add_error(t, "Unterminated string.")
        ELSE add_token(Scanner_advance(t), "String")

\* while self.peek().is_ascii_digit() { self.advance(); }
RECURSIVE scan_digits(_)
scan_digits(s) ==
    IF Scanner_peek(s) \in Digits THEN scan_digits(Scanner_advance(s)) ELSE s

scan_number(s) ==
    LET t == scan_digits(s)
        u == IF Scanner_peek(t) = "." /\ Scanner_peek_next(t) \in Digits
             THEN scan_digits(Scanner_advance(t))
             ELSE t
    IN  add_token(u, "Number")

\* while self.peek().is_ascii_alphanumeric() || self.peek() == '_'
RECURSIVE scan_word(_)
scan_word(s) ==
    IF Scanner_peek(s) \in Letters \cup Digits
    THEN scan_word(Scanner_advance(s))
    ELSE s

\* the keyword table of scan_identifier
KeywordKind(text) ==
    CASE text = "if"       -> "If"
      [] text = "else"     -> "Else"
      [] text = "fn"       -> "Fn"
      [] text = "return"   -> "Return"
      [] text = "false"    -> "False"
      [] text = "true"     -> "True"
      [] text = "loop"     -> "Loop"
      [] text = "break"    -> "Break"
      [] text = "continue" -> "Continue"
      [] text = "let"      -> "Let"
      [] text = "type"     -> "Type"
      [] OTHER             -> "Identifier"

scan_identifier(s) ==
    LET t == scan_word(s)
    IN  add_token(t, KeywordKind(Str(Lexeme(t))))

\* an operator arm that never looks at the next character: under it C17
\* fails
two_char_never_double(s, second, double, single) == add_token(s, single)

\* a character with a one-character token and a two-character token when
\* the next character is `second`
two_char(s, second, double, single) ==
    IF Scanner_compare(s, second)
    THEN add_token(Scanner_advance(s), double)
    ELSE add_token(s, single)

\* scan_token: s is the scanner before the call, with start = current
scan_token(s) ==
    LET c == AdvancedChar(s)
        a == Scanner_advance(s)
    IN  CASE c = "("  -> [add_token(a, "LeftParen") EXCEPT !.parens = @ + 1]
          [] c = ")"  -> [add_token(a, "RightParen") EXCEPT !.parens = @ - 1]
          [] c = "{"  -> add_token(a, "LeftBrace")
          [] c = "}"  -> add_token(a, "RightBrace")
          [] c = ","  -> add_token(a, "Comma")
          [] c = "+"  -> add_token(a, "Plus")
          [] c = "-"  -> add_token(a, "Minus")
          [] c = "*"  -> add_token(a, "Star")
          [] c = "/"  -> IF Scanner_compare(a, "/")
                         THEN scan_comment(Scanner_advance(a))
                         ELSE add_token(a, "Slash")
          [] c = "?"  -> add_token(a, "Question")
          [] c = ":"  -> add_token(a, "Colon")
          [] c = ";"  -> add_token(a, "Semicolon")
          [] c = "!"  -> two_char(a, "=", "BangEqual", "Bang")
          [] c = "="  -> two_char(a, "=", "EqualEqual", "Equal")
          [] c = "<"  -> two_char(a, "=", "LessEqual", "Less")
          [] c = ">"  -> two_char(a, "=", "GreaterEqual", "Greater")
          [] c = "&" /\ Scanner_compare(a, "&") ->
                         add_token(Scanner_advance(a), "AmpAmp")
          [] c = "|" /\ Scanner_compare(a, "|") ->
                         add_token(Scanner_advance(a), "BarBar")
          [] c = "\n" -> scan_newline(a)
          [] c \in {" ", "\r", "\t"} -> a
          [] c = "\"" -> scan_string(a)
          [] c \in Digits  -> scan_number(a)
          [] c \in Letters -> scan_identifier(a)
          [] OTHER -> add_error(a, "Unexpected character.")

\* one iteration of the while loop of scan
scan_step(s) == scan_token([s EXCEPT !.start = s.current])

\* an end of scan that appends EOF only: under it C16 fails
scan_end_without_flush(s) ==
    [s EXCEPT !.tokens = Append(@, Token("EOF", <<>>, s.line))]

\* the end of scan: the pending terminator, then EOF
scan_end(s) ==
    LET t == add_semicolon(s)
    IN  [t EXCEPT !.tokens = Append(@, Token("EOF", <<>>, t.line))]

\* Scanner::scan as a function of the scanner it is called on
RECURSIVE scan(_)
scan(s) ==
    IF ~Scanner_is_at_end(s)
    THEN scan(scan_step(s))
    ELSE LET t == scan_end(s) IN [tokens |-> t.tokens, errors |-> t.errors]


----------------------------------------------------------------------------
(* AST: src/src/expr.rs, src/src/stmt.rs, src/src/variant.rs; the Value    *)
(* payload of a literal is the one primary_expression builds               *)

\* Option<T>
None == [none |-> TRUE]

Some(x) == [some |-> x]

new_logical(left, operator, right) ==
    [node |-> "Logical", left |-> left, operator |-> operator, right |-> right]

new_binary(left, operator, right) ==
    [node |-> "Binary", left |-> left, operator |-> operator, right |-> right]

new_unary(operator, right) ==
    [node |-> "Unary", operator |-> operator, right |-> right]

new_call(callee, arguments) ==
    [node |-> "Call", callee |-> callee, arguments |-> arguments]

new_grouping(expression) == [node |-> "Grouping", expression |-> expression]

new_variable(name) == [node |-> "Variable", name |-> name]

new_literal(value) == [node |-> "Literal", value |-> value]

new_if(condition, then_branch, else_branch) ==
    [node |-> "If", condition |-> condition, then_branch |-> then_branch,
     else_branch |-> else_branch]

new_function(name, parameters, output, body) ==
    [node |-> "Function", name |-> name, parameters |-> parameters,
     output |-> output, body |-> body]

new_return(value) == [node |-> "Return", value |-> value]

new_loop(body) == [node |-> "Loop", body |-> body]

new_break == [node |-> "Break"]

new_continue == [node |-> "Continue"]

new_let(name, variant, initializer) ==
    [node |-> "Let", name |-> name, variant |-> variant,
     initializer |-> initializer]

new_type(name, variant) == [node |-> "Type", name |-> name, variant |-> variant]

new_block(statements) == [node |-> "Block", statements |-> statements]

new_assignment(name, value) ==
    [node |-> "Assignment", name |-> name, value |-> value]

new_expression(expression) == [node |-> "Expression", expression |-> expression]

new_literal_variant(name) == [node |-> "LiteralVariant", name |-> name]

new_function_variant(parameters, output) ==
    [node |-> "FunctionVariant", parameters |-> parameters, output |-> output]

----------------------------------------------------------------------------
(* Parser. A parsing method is an operator of the token list t and the     *)
(* cursor c it is called at; it returns Ok(value, cursor) or               *)
(* Err(error, cursor), the cursor being the parser's `current` on return.  *)

Ok(val, cur) == [ok |-> TRUE, val |-> val, cur |-> cur]

Err(err, cur) == [ok |-> FALSE, err |-> err, cur |-> cur]

\* `let x = value;` followed by the rest of the method, next
Bind(value, next(_)) == next(value)

\* `let x = result?;`: an Err returns from the method at once, an Ok goes on
\* to the rest of the method, next
Try(result, next(_)) == IF result.ok THEN next(result) ELSE result

Parser_new(tokens) ==
    [tokens     |-> tokens,
     current    |-> 0,
     statements |-> <<>>,
     errors     |-> <<>>]

Parser_peek(t, c) == t[c + 1]

Parser_previous(t, c) == t[c]

Parser_is_at_end(t, c) == Parser_peek(t, c).kind = "EOF"

check(t, c, kind) == ~Parser_is_at_end(t, c) /\ Parser_peek(t, c).kind = kind

\* the cursor after advance
Parser_advance(t, c) == IF ~Parser_is_at_end(t, c) THEN c + 1 ELSE c

\* compare: whether one of the kinds matches; when it does the cursor is
\* Parser_advance(t, c), which is c + 1
Parser_compare(t, c, kinds) == \E kind \in kinds : check(t, c, kind)

Parser_error(token, message) ==
    SyntaxError(token.line,
                IF token.kind = "EOF"
                THEN " at end"
                ELSE " at '" \o Str(token.lexeme) \o "'",
                message)

consume(t, c, kind, message) ==
    IF check(t, c, kind)
    THEN Ok(Parser_peek(t, c), Parser_advance(t, c))
    ELSE Err(Parser_error(Parser_peek(t, c), message), c)

\* while !self.is_at_end() { if peek is Fn | Type { return; } advance(); }
RECURSIVE synchronize_loop(_, _)
synchronize_loop(t, c) ==
    IF ~Parser_is_at_end(t, c)
    THEN IF Parser_peek(t, c).kind \in {"Fn", "Type"}
         THEN c
         ELSE synchronize_loop(t, Parser_advance(t, c))
    ELSE c

\* a synchronize that discards nothing: under it C19 fails
synchronize_in_place(t, c) == c

\* the cursor after synchronize
synchronize(t, c) == synchronize_loop(t, Parser_advance(t, c))

\* self.compare(&[Kind::Comma]) after a comma-separated list
optional_comma(t, c) ==
    IF Parser_compare(t, c, {"Comma"}) THEN Parser_advance(t, c) ELSE c

\* the digits of a number as a float prints them: without the zeros that end
\* its fraction, and without the point when no fraction is left
RECURSIVE shortest_digits(_)
shortest_digits(chars) ==
    IF \A i \in 1..Len(chars) : chars[i] # "." THEN chars
    ELSE IF chars[Len(chars)] = "0"
    THEN shortest_digits(SubSeq(chars, 1, Len(chars) - 1))
    ELSE IF chars[Len(chars)] = "." THEN SubSeq(chars, 1, Len(chars) - 1)
    ELSE chars

\* a literal whose number is kept as a float and printed back from it: under
\* it C12 fails
literal_value_as_float(token) ==
    CASE token.kind = "False"  -> [value |-> "False"]
      [] token.kind = "True"   -> [value |-> "True"]
      [] token.kind = "Number" ->
            [value |-> "Number", text |-> shortest_digits(token.lexeme)]
      [] token.kind = "String" ->
            [value |-> "String",
             text  |-> SubSeq(token.lexeme, 2, Len(token.lexeme) - 1)]

\* the Value of a literal token: the lexeme of a number, the lexeme without
\* its first and last character of a string
literal_value(token) ==
    CASE token.kind = "False"  -> [value |-> "False"]
      [] token.kind = "True"   -> [value |-> "True"]
      [] token.kind = "Number" -> [value |-> "Number", text |-> token.lexeme]
      [] token.kind = "String" ->
            [value |-> "String",
             text  |-> SubSeq(token.lexeme, 2, Len(token.lexeme) - 1)]

RECURSIVE variant(_, _), variant_loop(_, _, _), function_variant(_, _)
RECURSIVE expression(_, _), or_expression(_, _), or_loop(_, _, _)
RECURSIVE and_expression(_, _), and_loop(_, _, _)
RECURSIVE equality_expression(_, _), equality_loop(_, _, _)
RECURSIVE comparison_expression(_, _), comparison_loop(_, _, _)
RECURSIVE term_expression(_, _), term_loop(_, _, _)
RECURSIVE factor_expression(_, _), factor_loop(_, _, _)
RECURSIVE unary_expression(_, _), call_expression(_, _), call_loop(_, _, _)
RECURSIVE arguments_loop(_, _, _), primary_expression(_, _)
RECURSIVE statement(_, _), block_statement(_, _), block_loop(_, _, _)
RECURSIVE if_statement(_, _), loop_statement(_, _)

literal_variant(t, c) == Ok(new_literal_variant(Parser_previous(t, c)), c)

variant(t, c) ==
    IF Parser_compare(t, c, {"Identifier"})
    THEN literal_variant(t, Parser_advance(t, c))
    ELSE IF Parser_compare(t, c, {"Fn"})
    THEN function_variant(t, Parser_advance(t, c))
    ELSE Err(Parser_error(Parser_peek(t, c), "Expect literal or function type."), c)

\* while self.compare(&[Kind::Comma]) { parameters.push(self.variant()?) }
variant_loop(t, parameters, c) ==
    IF Parser_compare(t, c, {"Comma"})
    THEN Try(variant(t, Parser_advance(t, c)), LAMBDA v :
         variant_loop(t, Append(parameters, v.val), v.cur))
    ELSE Ok(parameters, c)

function_variant(t, c) ==
    Try(consume(t, c, "LeftParen", "Expect '(' after function type."),
        LAMBDA open :
    Try(IF check(t, open.cur, "RightParen") THEN Ok(<<>>, open.cur)
        ELSE Try(variant(t, open.cur), LAMBDA first :
             Try(variant_loop(t, <<first.val>>, first.cur), LAMBDA rest :
             Ok(rest.val, optional_comma(t, rest.cur)))),
        LAMBDA parameters :
    Try(consume(t, parameters.cur, "RightParen",
                "Expect ')' after function type."),
        LAMBDA close :
    IF Parser_compare(t, close.cur, {"Colon"})
    THEN Try(variant(t, Parser_advance(t, close.cur)), LAMBDA output :
         Ok(new_function_variant(parameters.val, Some(output.val)), output.cur))
    ELSE Ok(new_function_variant(parameters.val, None), close.cur))))

expression(t, c) == or_expression(t, c)

or_expression(t, c) ==
    Try(and_expression(t, c), LAMBDA expr : or_loop(t, expr.val, expr.cur))

or_loop(t, expr, c) ==
    IF Parser_compare(t, c, {"BarBar"})
    THEN Try(and_expression(t, Parser_advance(t, c)), LAMBDA right :
         or_loop(t, new_logical(expr, Parser_previous(t, Parser_advance(t, c)),
                                right.val),
                 right.cur))
    ELSE Ok(expr, c)

and_expression(t, c) ==
    Try(equality_expression(t, c), LAMBDA expr : and_loop(t, expr.val, expr.cur))

and_loop(t, expr, c) ==
    IF Parser_compare(t, c, {"AmpAmp"})
    THEN Try(equality_expression(t, Parser_advance(t, c)), LAMBDA right :
         and_loop(t, new_logical(expr, Parser_previous(t, Parser_advance(t, c)),
                                 right.val),
                  right.cur))
    ELSE Ok(expr, c)

equality_expression(t, c) ==
    Try(comparison_expression(t, c), LAMBDA expr :
        equality_loop(t, expr.val, expr.cur))

equality_loop(t, expr, c) ==
    IF Parser_compare(t, c, {"BangEqual", "EqualEqual"})
    THEN Try(comparison_expression(t, Parser_advance(t, c)), LAMBDA right :
         equality_loop(t, new_binary(expr,
                                     Parser_previous(t, Parser_advance(t, c)),
                                     right.val),
                       right.cur))
    ELSE Ok(expr, c)

comparison_expression(t, c) ==
    Try(term_expression(t, c), LAMBDA expr :
        comparison_loop(t, expr.val, expr.cur))

comparison_loop(t, expr, c) ==
    IF Parser_compare(t, c, {"Greater", "GreaterEqual", "Less", "LessEqual"})
    THEN Try(term_expression(t, Parser_advance(t, c)), LAMBDA right :
         comparison_loop(t, new_binary(expr,
                                       Parser_previous(t, Parser_advance(t, c)),
                                       right.val),
                         right.cur))
    ELSE Ok(expr, c)

term_expression(t, c) ==
    Try(factor_expression(t, c), LAMBDA expr : term_loop(t, expr.val, expr.cur))

\* a term loop that parses everything after the operator as its right
\* operand, so that `a - b - c` groups to the right: under it C15 fails
term_loop_right(t, expr, c) ==
    IF Parser_compare(t, c, {"Minus", "Plus"})
    THEN Try(term_expression(t, Parser_advance(t, c)), LAMBDA right :
         Ok(new_binary(expr, Parser_previous(t, Parser_advance(t, c)),
                       right.val),
            right.cur))
    ELSE Ok(expr, c)

term_loop(t, expr, c) ==
    IF Parser_compare(t, c, {"Minus", "Plus"})
    THEN Try(factor_expression(t, Parser_advance(t, c)), LAMBDA right :
         term_loop(t, new_binary(expr, Parser_previous(t, Parser_advance(t, c)),
                                 right.val),
                   right.cur))
    ELSE Ok(expr, c)

factor_expression(t, c) ==
    Try(unary_expression(t, c), LAMBDA expr : factor_loop(t, expr.val, expr.cur))

factor_loop(t, expr, c) ==
    IF Parser_compare(t, c, {"Slash", "Star"})
    THEN Try(unary_expression(t, Parser_advance(t, c)), LAMBDA right :
         factor_loop(t, new_binary(expr, Parser_previous(t, Parser_advance(t, c)),
                                   right.val),
                     right.cur))
    ELSE Ok(expr, c)

unary_expression(t, c) ==
    IF Parser_compare(t, c, {"Bang", "Minus"})
    THEN Try(unary_expression(t, Parser_advance(t, c)), LAMBDA right :
         Ok(new_unary(Parser_previous(t, Parser_advance(t, c)), right.val),
            right.cur))
    ELSE call_expression(t, c)

call_expression(t, c) ==
    Try(primary_expression(t, c), LAMBDA expr : call_loop(t, expr.val, expr.cur))

\* while self.compare(&[Kind::Comma]) { arguments.push(self.expression()?); }
arguments_loop(t, arguments, c) ==
    IF Parser_compare(t, c, {"Comma"})
    THEN Try(expression(t, Parser_advance(t, c)), LAMBDA argument :
         arguments_loop(t, Append(arguments, argument.val), argument.cur))
    ELSE Ok(arguments, c)

\* the while self.compare(&[Kind::LeftParen]) loop of call_expression
call_loop(t, expr, c) ==
    IF Parser_compare(t, c, {"LeftParen"})
    THEN Try(IF check(t, Parser_advance(t, c), "RightParen")
             THEN Ok(<<>>, Parser_advance(t, c))
             ELSE Try(expression(t, Parser_advance(t, c)), LAMBDA first :
                  Try(arguments_loop(t, <<first.val>>, first.cur), LAMBDA rest :
                  Ok(rest.val, optional_comma(t, rest.cur)))),
             LAMBDA arguments :
         Try(consume(t, arguments.cur, "RightParen",
                     "Expect ')' after arguments."),
             LAMBDA close :
         call_loop(t, new_call(expr, arguments.val), close.cur)))
    ELSE Ok(expr, c)

primary_expression(t, c) ==
    IF Parser_compare(t, c, {"False", "True", "Number", "String"})
    THEN Ok(new_literal(literal_value(Parser_previous(t, Parser_advance(t, c)))),
            Parser_advance(t, c))
    ELSE IF Parser_compare(t, c, {"Identifier"})
    THEN Ok(new_variable(Parser_previous(t, Parser_advance(t, c))),
            Parser_advance(t, c))
    ELSE IF Parser_compare(t, c, {"LeftParen"})
    THEN Try(expression(t, Parser_advance(t, c)), LAMBDA expr :
         Try(consume(t, expr.cur, "RightParen", "Expect ')' after expression."),
             LAMBDA close :
         Ok(new_grouping(expr.val), close.cur)))
    ELSE Err(Parser_error(Parser_peek(t, c), "Expect expression."), c)

return_statement(t, c) ==
    Try(IF check(t, c, "Semicolon") THEN Ok(None, c)
        ELSE Try(expression(t, c), LAMBDA expr : Ok(Some(expr.val), expr.cur)),
        LAMBDA value :
    Try(consume(t, value.cur, "Semicolon", "Expect ';' after return value."),
        LAMBDA semi :
    Ok(new_return(value.val), semi.cur)))

break_statement(t, c) ==
    Try(consume(t, c, "Semicolon", "Expect ';' after 'break'."), LAMBDA semi :
    Ok(new_break, semi.cur))

continue_statement(t, c) ==
    Try(consume(t, c, "Semicolon", "Expect ';' after 'continue'."), LAMBDA semi :
    Ok(new_continue, semi.cur))

let_statement(t, c) ==
    Try(consume(t, c, "Identifier", "Expect variable name."), LAMBDA name :
    Try(consume(t, name.cur, "Colon", "Expect variable type."), LAMBDA colon :
    Try(variant(t, colon.cur), LAMBDA type :
    Try(IF Parser_compare(t, type.cur, {"Equal"})
        THEN Try(expression(t, Parser_advance(t, type.cur)), LAMBDA expr :
             Ok(Some(expr.val), expr.cur))
        ELSE Ok(None, type.cur),
        LAMBDA initializer :
    Try(consume(t, initializer.cur, "Semicolon",
                "Expect ';' after variable declaration."),
        LAMBDA semi :
    Ok(new_let(name.val, type.val, initializer.val), semi.cur))))))

\* an assignment_statement that picks the error token after it has parsed
\* the right-hand side, from peek: under it C8 fails
assignment_statement_at_peek(t, c) ==
    Try(expression(t, c), LAMBDA expr :
    IF Parser_compare(t, expr.cur, {"Equal"})
    THEN Try(expression(t, Parser_advance(t, expr.cur)), LAMBDA value :
         IF expr.val.node = "Variable"
         THEN Try(consume(t, value.cur, "Semicolon",
                          "Expect ';' after assignment."),
                  LAMBDA semi :
              Ok(new_assignment(expr.val.name, value.val), semi.cur))
         ELSE Err(Parser_error(Parser_peek(t, value.cur),
                               "Invalid assignment target."),
                  value.cur))
    ELSE Try(consume(t, expr.cur, "Semicolon", "Expect ';' after expression."),
             LAMBDA semi :
         Ok(new_expression(expr.val), semi.cur)))

assignment_statement(t, c) ==
    Try(expression(t, c), LAMBDA expr :
    IF Parser_compare(t, expr.cur, {"Equal"})
    THEN Try(expression(t, Parser_advance(t, expr.cur)), LAMBDA value :
         IF expr.val.node = "Variable"
         THEN Try(consume(t, value.cur, "Semicolon",
                          "Expect ';' after assignment."),
                  LAMBDA semi :
              Ok(new_assignment(expr.val.name, value.val), semi.cur))
         ELSE Err(Parser_error(Parser_previous(t, Parser_advance(t, expr.cur)),
                               "Invalid assignment target."),
                  value.cur))
    ELSE Try(consume(t, expr.cur, "Semicolon", "Expect ';' after expression."),
             LAMBDA semi :
         Ok(new_expression(expr.val), semi.cur)))

\* while !self.is_at_end() && !self.check(Kind::RightBrace)
block_loop(t, statements, c) ==
    IF ~Parser_is_at_end(t, c) /\ ~check(t, c, "RightBrace")
    THEN Try(statement(t, c), LAMBDA stmt :
         block_loop(t, Append(statements, stmt.val), stmt.cur))
    ELSE Ok(statements, c)

block_statement(t, c) ==
    Try(block_loop(t, <<>>, c), LAMBDA statements :
    Try(consume(t, statements.cur, "RightBrace", "Expect '}' after block."),
        LAMBDA close :
    Ok(new_block(statements.val), close.cur)))

if_statement(t, c) ==
    Try(expression(t, c), LAMBDA condition :
    Try(consume(t, condition.cur, "LeftBrace", "Expect block after 'if'."),
        LAMBDA open :
    Try(block_statement(t, open.cur), LAMBDA then_branch :
    IF Parser_compare(t, then_branch.cur, {"Else"})
    THEN Try(consume(t, Parser_advance(t, then_branch.cur), "LeftBrace",
                     "Expect block after 'else'."),
             LAMBDA else_open :
         Try(block_statement(t, else_open.cur), LAMBDA else_branch :
         Ok(new_if(condition.val, then_branch.val, Some(else_branch.val)),
            else_branch.cur)))
    ELSE Ok(new_if(condition.val, then_branch.val, None), then_branch.cur))))

loop_statement(t, c) ==
    Try(consume(t, c, "LeftBrace", "Expect '{' after 'loop'."), LAMBDA open :
    Try(block_statement(t, open.cur), LAMBDA body :
    Ok(new_loop(body.val), body.cur)))

statement(t, c) ==
    IF Parser_compare(t, c, {"If"})
    THEN if_statement(t, Parser_advance(t, c))
    ELSE IF Parser_compare(t, c, {"Return"})
    THEN return_statement(t, Parser_advance(t, c))
    ELSE IF Parser_compare(t, c, {"Loop"})
    THEN loop_statement(t, Parser_advance(t, c))
    ELSE IF Parser_compare(t, c, {"Break"})
    THEN break_statement(t, Parser_advance(t, c))
    ELSE IF Parser_compare(t, c, {"Continue"})
    THEN continue_statement(t, Parser_advance(t, c))
    ELSE IF Parser_compare(t, c, {"Let"})
    THEN let_statement(t, Parser_advance(t, c))
    ELSE IF Parser_compare(t, c, {"LeftBrace"})
    THEN block_statement(t, Parser_advance(t, c))
    ELSE assignment_statement(t, c)

\* name ':' variant, one parameter of function_declaration
parameter(t, c) ==
    Try(consume(t, c, "Identifier", "Expect parameter name."), LAMBDA name :
    Try(consume(t, name.cur, "Colon", "Expect ':' after parameter name."),
        LAMBDA colon :
    Try(variant(t, colon.cur), LAMBDA type :
    Ok(<<name.val, type.val>>, type.cur))))

\* the while self.compare(&[Kind::Comma]) loop of function_declaration
RECURSIVE parameters_loop(_, _, _)
parameters_loop(t, parameters, c) ==
    IF Parser_compare(t, c, {"Comma"})
    THEN Try(parameter(t, Parser_advance(t, c)), LAMBDA next :
         parameters_loop(t, Append(parameters, next.val), next.cur))
    ELSE Ok(parameters, c)

function_declaration(t, c) ==
    Try(consume(t, c, "Identifier", "Expect function name."), LAMBDA name :
    Try(consume(t, name.cur, "LeftParen", "Expect '(' after function name."),
        LAMBDA open :
    Try(IF check(t, open.cur, "RightParen") THEN Ok(<<>>, open.cur)
        ELSE Try(parameter(t, open.cur), LAMBDA first :
             Try(parameters_loop(t, <<first.val>>, first.cur), LAMBDA rest :
             Ok(rest.val, optional_comma(t, rest.cur)))),
        LAMBDA parameters :
    Try(consume(t, parameters.cur, "RightParen", "Expect ')' after parameters."),
        LAMBDA close :
    Try(IF Parser_compare(t, close.cur, {"Colon"})
        THEN Try(variant(t, Parser_advance(t, close.cur)), LAMBDA type :
             Ok(Some(type.val), type.cur))
        ELSE Ok(None, close.cur),
        LAMBDA output :
    Try(consume(t, output.cur, "LeftBrace", "Expect '{' before function body."),
        LAMBDA brace :
    Try(block_statement(t, brace.cur), LAMBDA body :
    Ok(new_function(name.val, parameters.val, output.val, body.val),
       body.cur))))))))

type_declaration(t, c) ==
    Try(consume(t, c, "Identifier", "Expect type name."), LAMBDA name :
    Try(consume(t, name.cur, "Equal", "Expect '=' after type name."),
        LAMBDA equal :
    Try(variant(t, equal.cur), LAMBDA type :
    Try(consume(t, type.cur, "Semicolon", "Expect ';' after type."),
        LAMBDA semi :
    Ok(new_type(name.val, type.val), semi.cur)))))

\* a declaration that takes any statement at top level: under it C9 fails
declaration_or_statement(t, c) ==
    IF Parser_compare(t, c, {"Fn"})
    THEN function_declaration(t, Parser_advance(t, c))
    ELSE IF Parser_compare(t, c, {"Type"})
    THEN type_declaration(t, Parser_advance(t, c))
    ELSE statement(t, c)

declaration(t, c) ==
    IF Parser_compare(t, c, {"Fn"})
    THEN function_declaration(t, Parser_advance(t, c))
    ELSE IF Parser_compare(t, c, {"Type"})
    THEN type_declaration(t, Parser_advance(t, c))
    ELSE Err(Parser_error(Parser_peek(t, c),
                          "Expect function or type declaration."), c)

\* an iteration that on an error keeps what was built of the declaration: an
\* empty block stands for it in the statement list
parse_step_keeping_partial(p) ==
    Bind(declaration(p.tokens, p.current), LAMBDA result :
    IF result.ok
    THEN [p EXCEPT !.current = result.cur,
                   !.statements = Append(@, result.val)]
    ELSE [p EXCEPT !.current = synchronize(p.tokens, result.cur),
                   !.statements = Append(@, new_block(<<>>)),
                   !.errors = Append(@, result.err)])

\* one iteration of the while loop of parse, on the parser p
parse_step(p) ==
    Bind(declaration(p.tokens, p.current), LAMBDA result :
    IF result.ok
    THEN [p EXCEPT !.current = result.cur,
                   !.statements = Append(@, result.val)]
    ELSE [p EXCEPT !.current = synchronize(p.tokens, result.cur),
                   !.errors = Append(@, result.err)])

\* Parser::parse as a function of the parser it is called on
RECURSIVE parse(_)
parse(p) ==
    IF ~Parser_is_at_end(p.tokens, p.current)
    THEN parse(parse_step(p))
    ELSE [statements |-> p.statements, errors |-> p.errors]


----------------------------------------------------------------------------
(* Generator. A visit method is an operator of the node and of the         *)
(* generator's error list when it is called; it returns the text and the   *)
(* error list after the call.                                              *)

RUNTIME ==
    "\n    #![allow(dead_code, unused_mut, unused_parens)]\n\n"
    \o "    use std::fmt::Display;\n"
    \o "    use std::time::{SystemTime, UNIX_EPOCH};\n\n"
    \o "    fn clock() -> f64 {\n"
    \o "        SystemTime::now()\n"
    \o "            .duration_since(UNIX_EPOCH)\n"
    \o "            .unwrap()\n"
    \o "            .as_secs_f64()\n"
    \o "    }\n\n"
    \o "    fn print(value: impl Display) {\n"
    \o "        println!(\"{}\", value);\n"
    \o "    }\n"

GenerateError(line, message) == [line |-> line, message |-> message]

Generator_new == [errors |-> <<>>]

Rendered(text, errors) == [text |-> text, errors |-> errors]

\* Generator::error: the error is pushed and the placeholder returned
Generator_error(errors, line, message) ==
    Rendered("()", Append(errors, GenerateError(line, message)))

\* Vec<String>::join
RECURSIVE join(_, _)
join(texts, separator) ==
    IF texts = <<>> THEN ""
    ELSE IF Len(texts) = 1 THEN texts[1]
    ELSE texts[1] \o separator \o join(Tail(texts), separator)

logical_operator(kind) ==
    CASE kind = "AmpAmp" -> Some("&&")
      [] kind = "BarBar" -> Some("||")
      [] OTHER           -> None

binary_operator(kind) ==
    CASE kind = "BangEqual"    -> Some("!=")
      [] kind = "EqualEqual"   -> Some("==")
      [] kind = "LessEqual"    -> Some("<=")
      [] kind = "Less"         -> Some("<")
      [] kind = "GreaterEqual" -> Some(">=")
      [] kind = "Greater"      -> Some(">")
      [] kind = "Plus"         -> Some("+")
      [] kind = "Minus"        -> Some("-")
      [] kind = "Star"         -> Some("*")
      [] kind = "Slash"        -> Some("/")
      [] OTHER                 -> None

unary_operator(kind) ==
    CASE kind = "Minus" -> Some("-")
      [] kind = "Bang"  -> Some("!")
      [] OTHER          -> None

RECURSIVE Expr_accept(_, _), Stmt_accept(_, _), Variant_accept(_, _)
RECURSIVE accept_all(_, _, _, _)

\* nodes.iter().map(|node| node.accept(self)).collect(): the texts in order
\* and the error list after the last; kind names the accept to call
accept_all(kind, nodes, texts, errors) ==
    IF nodes = <<>> THEN Rendered(texts, errors)
    ELSE Bind(CASE kind = "expr"    -> Expr_accept(Head(nodes), errors)
                [] kind = "stmt"    -> Stmt_accept(Head(nodes), errors)
                [] kind = "variant" -> Variant_accept(Head(nodes), errors),
              LAMBDA first :
         accept_all(kind, Tail(nodes), Append(texts, first.text), first.errors))

visit_logical_expr(expr, errors) ==
    Bind(logical_operator(expr.operator.kind), LAMBDA operator :
    IF operator = None
    THEN Generator_error(errors, expr.operator.line, "Unexpected operator.")
    ELSE Bind(Expr_accept(expr.left, errors), LAMBDA left :
         Bind(Expr_accept(expr.right, left.errors), LAMBDA right :
         Rendered("(" \o left.text \o " " \o operator.some \o " "
                      \o right.text \o ")",
                  right.errors))))

\* a Binary node lowered without the parentheses around it: under it C13
\* fails
visit_binary_expr_bare(expr, errors) ==
    Bind(binary_operator(expr.operator.kind), LAMBDA operator :
    IF operator = None
    THEN Generator_error(errors, expr.operator.line, "Unexpected operator.")
    ELSE Bind(Expr_accept(expr.left, errors), LAMBDA left :
         Bind(Expr_accept(expr.right, left.errors), LAMBDA right :
         Rendered(left.text \o " " \o operator.some \o " " \o right.text,
                  right.errors))))

visit_binary_expr(expr, errors) ==
    Bind(binary_operator(expr.operator.kind), LAMBDA operator :
    IF operator = None
    THEN Generator_error(errors, expr.operator.line, "Unexpected operator.")
    ELSE Bind(Expr_accept(expr.left, errors), LAMBDA left :
         Bind(Expr_accept(expr.right, left.errors), LAMBDA right :
         Rendered("(" \o left.text \o " " \o operator.some \o " "
                      \o right.text \o ")",
                  right.errors))))

visit_unary_expr(expr, errors) ==
    Bind(unary_operator(expr.operator.kind), LAMBDA operator :
    IF operator = None
    THEN Generator_error(errors, expr.operator.line, "Unexpected operator.")
    ELSE Bind(Expr_accept(expr.right, errors), LAMBDA right :
         Rendered("(" \o operator.some \o right.text \o ")", right.errors)))

\* the arguments are rendered before the format! call, the callee inside it
visit_call_expr(expr, errors) ==
    Bind(accept_all("expr", expr.arguments, <<>>, errors), LAMBDA arguments :
    Bind(Expr_accept(expr.callee, arguments.errors), LAMBDA callee :
    Rendered("(" \o callee.text \o ")(" \o join(arguments.text, ", ") \o ")",
             callee.errors)))

visit_grouping_expr(expr, errors) ==
    Bind(Expr_accept(expr.expression, errors), LAMBDA inner :
    Rendered("(" \o inner.text \o ")", inner.errors))

visit_variable_expr(expr, errors) == Rendered(Str(expr.name.lexeme), errors)

visit_literal_expr(expr, errors) ==
    CASE expr.value.value = "False"  -> Rendered("false", errors)
      [] expr.value.value = "True"   -> Rendered("true", errors)
      [] expr.value.value = "Number" -> Rendered(Str(expr.value.text), errors)
      [] expr.value.value = "String" ->
            Rendered("\"" \o Str(expr.value.text) \o "\"", errors)

Expr_accept(expr, errors) ==
    CASE expr.node = "Logical"  -> visit_logical_expr(expr, errors)
      [] expr.node = "Binary"   -> visit_binary_expr(expr, errors)
      [] expr.node = "Unary"    -> visit_unary_expr(expr, errors)
      [] expr.node = "Call"     -> visit_call_expr(expr, errors)
      [] expr.node = "Grouping" -> visit_grouping_expr(expr, errors)
      [] expr.node = "Variable" -> visit_variable_expr(expr, errors)
      [] expr.node = "Literal"  -> visit_literal_expr(expr, errors)

visit_literal_variant(variant_, errors) ==
    Rendered(Str(variant_.name.lexeme), errors)

visit_function_variant(variant_, errors) ==
    Bind(accept_all("variant", variant_.parameters, <<>>, errors),
         LAMBDA parameters :
    Bind(IF variant_.output = None
         THEN Rendered("()", parameters.errors)
         ELSE Variant_accept(variant_.output.some, parameters.errors),
         LAMBDA output :
    Rendered("fn(" \o join(parameters.text, "\n") \o ") -> " \o output.text,
             output.errors)))

Variant_accept(variant_, errors) ==
    CASE variant_.node = "LiteralVariant"  ->
            visit_literal_variant(variant_, errors)
      [] variant_.node = "FunctionVariant" ->
            visit_function_variant(variant_, errors)

\* the else branch is rendered first, then the condition and the then branch
visit_if_stmt(stmt, errors) ==
    Bind(IF stmt.else_branch = None THEN Rendered("", errors)
         ELSE Bind(Stmt_accept(stmt.else_branch.some, errors), LAMBDA branch :
              Rendered(" else { " \o branch.text \o " }", branch.errors)),
         LAMBDA else_branch :
    Bind(Expr_accept(stmt.condition, else_branch.errors), LAMBDA condition :
    Bind(Stmt_accept(stmt.then_branch, condition.errors), LAMBDA then_branch :
    Rendered("if " \o condition.text \o " { " \o then_branch.text \o " }"
                 \o else_branch.text,
             then_branch.errors))))

\* "name: type" of each parameter, in order
RECURSIVE visit_parameters(_, _, _)
visit_parameters(parameters, texts, errors) ==
    IF parameters = <<>> THEN Rendered(texts, errors)
    ELSE Bind(Variant_accept(Head(parameters)[2], errors), LAMBDA type :
         visit_parameters(Tail(parameters),
                          Append(texts, Str(Head(parameters)[1].lexeme) \o ": "
                                            \o type.text),
                          type.errors))

visit_function_stmt(stmt, errors) ==
    Bind(visit_parameters(stmt.parameters, <<>>, errors), LAMBDA parameters :
    Bind(IF stmt.output = None
         THEN Rendered("()", parameters.errors)
         ELSE Variant_accept(stmt.output.some, parameters.errors),
         LAMBDA output :
    Bind(Stmt_accept(stmt.body, output.errors), LAMBDA body :
    Rendered("fn " \o Str(stmt.name.lexeme) \o "("
                 \o join(parameters.text, ", ") \o ") -> " \o output.text
                 \o " " \o body.text,
             body.errors))))

visit_return_stmt(stmt, errors) ==
    IF stmt.value = None THEN Rendered("return;", errors)
    ELSE Bind(Expr_accept(stmt.value.some, errors), LAMBDA value :
         Rendered("return " \o value.text \o ";", value.errors))

visit_loop_stmt(stmt, errors) ==
    Bind(Stmt_accept(stmt.body, errors), LAMBDA body :
    Rendered("loop " \o body.text, body.errors))

visit_break_stmt(stmt, errors) == Rendered("break;", errors)

visit_continue_stmt(stmt, errors) == Rendered("continue;", errors)

\* the initializer is rendered first, then the type
visit_let_stmt(stmt, errors) ==
    Bind(IF stmt.initializer = None THEN Rendered("", errors)
         ELSE Bind(Expr_accept(stmt.initializer.some, errors), LAMBDA value :
              Rendered(" = " \o value.text, value.errors)),
         LAMBDA initializer :
    Bind(Variant_accept(stmt.variant, initializer.errors), LAMBDA type :
    Rendered("let mut " \o Str(stmt.name.lexeme) \o ": " \o type.text
                 \o initializer.text \o ";",
             type.errors)))

visit_type_stmt(stmt, errors) ==
    Bind(Variant_accept(stmt.variant, errors), LAMBDA type :
    Rendered("type " \o Str(stmt.name.lexeme) \o " = " \o type.text \o ";",
             type.errors))

visit_block_stmt(stmt, errors) ==
    Bind(accept_all("stmt", stmt.statements, <<>>, errors), LAMBDA statements :
    Rendered("{ " \o join(statements.text, " ") \o " }", statements.errors))

visit_assignment_stmt(stmt, errors) ==
    Bind(Expr_accept(stmt.value, errors), LAMBDA value :
    Rendered(Str(stmt.name.lexeme) \o " = " \o value.text \o ";", value.errors))

visit_expression_stmt(stmt, errors) ==
    Bind(Expr_accept(stmt.expression, errors), LAMBDA value :
    Rendered(value.text \o ";", value.errors))

Stmt_accept(stmt, errors) ==
    CASE stmt.node = "If"         -> visit_if_stmt(stmt, errors)
      [] stmt.node = "Function"   -> visit_function_stmt(stmt, errors)
      [] stmt.node = "Return"     -> visit_return_stmt(stmt, errors)
      [] stmt.node = "Loop"       -> visit_loop_stmt(stmt, errors)
      [] stmt.node = "Break"      -> visit_break_stmt(stmt, errors)
      [] stmt.node = "Continue"   -> visit_continue_stmt(stmt, errors)
      [] stmt.node = "Let"        -> visit_let_stmt(stmt, errors)
      [] stmt.node = "Type"       -> visit_type_stmt(stmt, errors)
      [] stmt.node = "Block"      -> visit_block_stmt(stmt, errors)
      [] stmt.node = "Assignment" -> visit_assignment_stmt(stmt, errors)
      [] stmt.node = "Expression" -> visit_expression_stmt(stmt, errors)

\* a generate that returns a copy of the error list and leaves the list in
\* the generator: under it C14 fails
generate_keeping_errors(g, statements) ==
    Bind(accept_all("stmt", statements, <<>>, g.errors), LAMBDA generated :
    [output    |-> RUNTIME \o join(generated.text, " "),
     errors    |-> generated.errors,
     generator |-> [g EXCEPT !.errors = generated.errors]])

\* Generator::generate on the generator g: what it returns and the generator
\* after the call, its error list taken
generate(g, statements) ==
    Bind(accept_all("stmt", statements, <<>>, g.errors), LAMBDA generated :
    [output    |-> RUNTIME \o join(generated.text, " "),
     errors    |-> generated.errors,
     generator |-> [g EXCEPT !.errors = <<>>]])

----------------------------------------------------------------------------
(* Values a variable holds before the stage that sets it has run *)

NotYet == [notyet |-> TRUE]

Unwritten == "unwritten"

----------------------------------------------------------------------------
(* Actions of the scanner *)

\* while !self.is_at_end() { self.start = self.current; self.scan_token(); }
ScanToken ==
    /\ pc = "scan"
    /\ ~Scanner_is_at_end(scanner)
    /\ scanner' = scan_step(scanner)
    /\ UNCHANGED <<pc, file, scan_out, parser, parse_out, generator, gen_out,
                   disk, rustc, exit_code>>

\* the loop is over: add_semicolon, push EOF, mem::take both lists, return
ScanFinish ==
    /\ pc = "scan"
    /\ Scanner_is_at_end(scanner)
    /\ LET t == scan_end(scanner)
       IN  /\ scan_out' = [tokens |-> t.tokens, errors |-> t.errors]
           /\ scanner' = [t EXCEPT !.tokens = NoTokens, !.errors = NoErrors]
    /\ pc' = "scanned"
    /\ UNCHANGED <<file, parser, parse_out, generator, gen_out,
                   disk, rustc, exit_code>>

----------------------------------------------------------------------------
(* Actions of the parser *)

\* while !self.is_at_end() { match self.declaration() { ... } }
ParseDeclaration ==
    /\ pc = "parse"
    /\ ~Parser_is_at_end(parser.tokens, parser.current)
    /\ parser' = parse_step(parser)
    /\ UNCHANGED <<pc, file, scanner, scan_out, parse_out, generator, gen_out,
                   disk, rustc, exit_code>>

\* the loop is over: return (statements, errors)
ParseFinish ==
    /\ pc = "parse"
    /\ Parser_is_at_end(parser.tokens, parser.current)
    /\ parse_out' = [statements |-> parser.statements, errors |-> parser.errors]
    /\ pc' = "parsed"
    /\ UNCHANGED <<file, scanner, scan_out, parser, generator, gen_out,
                   disk, rustc, exit_code>>

----------------------------------------------------------------------------
(* Actions of the driver, main *)

Exit(code) == pc' = "exit" /\ exit_code' = Some(code)

\* the numbers of arguments the program is started with
ArgCounts == 0..3

\* args.len() != 2: the usage line and process::exit(1)
MainUsage ==
    /\ pc = "main"
    /\ \E argc \in ArgCounts : argc # 2
    /\ Exit(1)
    /\ UNCHANGED <<file, scanner, scan_out, parser, parse_out, generator,
                   gen_out, disk, rustc>>

\* fs::read_to_string fails: main returns the error, the process exits with 1
MainReadFails ==
    /\ pc = "main"
    /\ \E argc \in ArgCounts : argc = 2
    /\ Exit(1)
    /\ UNCHANGED <<file, scanner, scan_out, parser, parse_out, generator,
                   gen_out, disk, rustc>>

\* the source is read and Scanner::new(&source) built; scan is called
MainScan ==
    /\ pc = "main"
    /\ \E argc \in ArgCounts : argc = 2
    /\ scanner' = Scanner_new(file)
    /\ pc' = "scan"
    /\ UNCHANGED <<file, scan_out, parser, parse_out, generator, gen_out,
                   disk, rustc, exit_code>>

\* the scanner's errors are printed; with any, process::exit(1), else
\* Parser::new(tokens) and parse is called
MainScanned ==
    /\ pc = "scanned"
    /\ IF scan_out.errors # <<>>
       THEN Exit(1) /\ UNCHANGED parser
       ELSE /\ parser' = Parser_new(scan_out.tokens)
            /\ pc' = "parse"
            /\ UNCHANGED exit_code
    /\ UNCHANGED <<file, scanner, scan_out, parse_out, generator, gen_out,
                   disk, rustc>>

\* a driver that goes on to the generator whatever the parser returned:
\* under it C10 fails
MainParsedUnchecked ==
    /\ pc = "parsed"
    /\ generator' = Generator_new
    /\ pc' = "generate"
    /\ UNCHANGED <<file, scanner, scan_out, parser, parse_out, gen_out,
                   disk, rustc, exit_code>>

\* the parser's errors are printed; with any, process::exit(1), else
\* Generator::new() and generate is called
MainParsed ==
    /\ pc = "parsed"
    /\ IF parse_out.errors # <<>>
       THEN Exit(1) /\ UNCHANGED generator
       ELSE /\ generator' = Generator_new
            /\ pc' = "generate"
            /\ UNCHANGED exit_code
    /\ UNCHANGED <<file, scanner, scan_out, parser, parse_out, gen_out,
                   disk, rustc>>

\* Generator::generate(&statements)
Generate ==
    /\ pc = "generate"
    /\ LET result == generate(generator, parse_out.statements)
       IN  /\ gen_out' = [output |-> result.output, errors |-> result.errors]
           /\ generator' = result.generator
    /\ pc' = "generated"
    /\ UNCHANGED <<file, scanner, scan_out, parser, parse_out, disk, rustc,
                   exit_code>>

\* Generator::generate(&statements) once more on the same statement list: on
\* the Generator that has already generated, or on a new one
GenerateAgain ==
    /\ pc = "generated"
    /\ \E fresh \in BOOLEAN :
           LET g == IF fresh THEN Generator_new ELSE generator
               result == generate(g, parse_out.statements)
           IN  /\ gen_out' = [output |-> result.output, errors |-> result.errors]
               /\ generator' = result.generator
    /\ pc' = "regenerated"
    /\ UNCHANGED <<file, scanner, scan_out, parser, parse_out, disk, rustc,
                   exit_code>>

\* the generator's errors are printed; with any, process::exit(1), else the
\* output is written
MainGenerated ==
    /\ pc = "generated"
    /\ IF gen_out.errors # <<>>
       THEN Exit(1)
       ELSE pc' = "write" /\ UNCHANGED exit_code
    /\ UNCHANGED <<file, scanner, scan_out, parser, parse_out, generator,
                   gen_out, disk, rustc>>

\* fs::write(&destination, output)?: it writes, or fails and main returns
\* the error
MainWrite ==
    /\ pc = "write"
    /\ \E written \in BOOLEAN :
           IF written
           THEN disk' = gen_out.output /\ pc' = "rustc" /\ UNCHANGED exit_code
           ELSE Exit(1) /\ UNCHANGED disk
    /\ UNCHANGED <<file, scanner, scan_out, parser, parse_out, generator,
                   gen_out, rustc>>

\* Command::new("rustc")...status(): the compiler cannot be started and
\* expect panics (status 101), or it runs and the process exits with its
\* status code, 0 when it has none
MainRustc ==
    /\ pc = "rustc"
    /\ \E outcome \in {"missing", "signal", "code0", "code1"} :
           /\ rustc' = (outcome # "missing")
           /\ Exit(CASE outcome = "missing" -> 101
                     [] outcome = "signal"  -> 0
                     [] outcome = "code0"   -> 0
                     [] outcome = "code1"   -> 1)
    /\ UNCHANGED <<file, scanner, scan_out, parser, parse_out, generator,
                   gen_out, disk>>

----------------------------------------------------------------------------
(* The scanner on its own: every source over ScanAlphabet up to MaxSrcLen *)

MaxSrcLen == 4

ScanAlphabet == {"(", ")", "{", ";", "\n", "\"", "a", "/"}

SourcesUpTo(alphabet, n) == UNION {[1..k -> alphabet] : k \in 0..n}

ScanSources == SourcesUpTo(ScanAlphabet, MaxSrcLen)

\* Scanner::new(&source), about to enter the loop of scan
InitScan ==
    /\ file \in ScanSources
    /\ scanner = Scanner_new(file)
    /\ pc = "scan"
    /\ scan_out = NotYet
    /\ parser = NotYet
    /\ parse_out = NotYet
    /\ generator = NotYet
    /\ gen_out = NotYet
    /\ disk = Unwritten
    /\ rustc = FALSE
    /\ exit_code = None

NextScan == ScanToken \/ ScanFinish

\* scan is a sequential loop: it keeps running until it returns
SpecScan == InitScan /\ [][NextScan]_vars /\ WF_vars(NextScan)

----------------------------------------------------------------------------
(* The scanner on operators and on characters it has no token for: every   *)
(* source over OperatorAlphabet up to MaxOpLen                             *)

MaxOpLen == 3

OperatorAlphabet == {"=", "!", "<", ">", "&", "|", "#", ".", "1", "\"", "\n"}

OperatorSources == SourcesUpTo(OperatorAlphabet, MaxOpLen)

\* Scanner::new(&source), about to enter the loop of scan
InitScanOperators ==
    /\ file \in OperatorSources
    /\ scanner = Scanner_new(file)
    /\ pc = "scan"
    /\ scan_out = NotYet
    /\ parser = NotYet
    /\ parse_out = NotYet
    /\ generator = NotYet
    /\ gen_out = NotYet
    /\ disk = Unwritten
    /\ rustc = FALSE
    /\ exit_code = None

SpecScanOperators == InitScanOperators /\ [][NextScan]_vars /\ WF_vars(NextScan)

----------------------------------------------------------------------------
(* The parser on its own, on the tokens the scanner returns for a source   *)
(* it finds no error in                                                    *)

\* `fn f(){}`: a well-formed function declaration
GoodFn ==
    <<"f", "n", " ", "f", "(", ")", "{", "}">>

\* `type T=A;`: a well-formed type declaration
GoodType ==
    <<"t", "y", "p", "e", " ", "T", "=", "A", ";">>

\* `fn f({}`: a function declaration whose parameter list is malformed
BadFn ==
    <<"f", "n", " ", "f", "(", "{", "}">>

\* `type T=;`: a type declaration without its type
BadType ==
    <<"t", "y", "p", "e", " ", "T", "=", ";">>

\* `x`: a token that starts no declaration
Junk ==
    <<"x">>

\* `fn f(`: a function declaration that stops after its `(`
OpenFn ==
    <<"f", "n", " ", "f", "(">>

\* `fn f(){let a=1;let g:fn(A)=2;}`: a function whose first `let` lacks its
\* type and whose second `let` has a function type
CascadeFn ==
    <<"f", "n", " ", "f", "(", ")", "{", "l", "e", "t", " ", "a", "=", "1",
      ";", "l", "e", "t", " ", "g", ":", "f", "n", "(", "A", ")", "=", "2",
      ";", "}">>

\* `fn f(){`: the text before the body of a function
PrefixFn ==
    <<"f", "n", " ", "f", "(", ")", "{">>

\* `}`: the text after the body of a function
SuffixFn ==
    <<"}">>

\* `x = 2;`
TopAssignX ==
    <<"x", " ", "=", " ", "2", ";">>

\* `1 = 2;`
TopAssign1 ==
    <<"1", " ", "=", " ", "2", ";">>

\* `fn f(){x = 2;}`
FnAssignX ==
    <<"f", "n", " ", "f", "(", ")", "{", "x", " ", "=", " ", "2", ";", "}">>

\* `fn f(){1 = 2;}`
FnAssign1 ==
    <<"f", "n", " ", "f", "(", ")", "{", "1", " ", "=", " ", "2", ";", "}">>

\* `fn f(){let x:N=1;x = 2;}`
FnLetAssignX ==
    <<"f", "n", " ", "f", "(", ")", "{", "l", "e", "t", " ", "x", ":", "N",
      "=", "1", ";", "x", " ", "=", " ", "2", ";", "}">>

\* `fn f(){1 = (\n2)\n}`: the `=` on line 1, the token after the right-hand
\* side on line 2
FnAssignLines ==
    <<"f", "n", " ", "f", "(", ")", "{", "1", " ", "=", " ", "(", "\n", "2",
      ")", "\n", "}">>

\* `fn g(){f(a, b,);}`
CallTrailing ==
    <<"f", "n", " ", "g", "(", ")", "{", "f", "(", "a", ",", " ", "b", ",",
      ")", ";", "}">>

\* `fn g(){f(a, b);}`
CallPlain ==
    <<"f", "n", " ", "g", "(", ")", "{", "f", "(", "a", ",", " ", "b", ")",
      ";", "}">>

\* `type T=fn(A, B,);`
TypeTrailing ==
    <<"t", "y", "p", "e", " ", "T", "=", "f", "n", "(", "A", ",", " ", "B",
      ",", ")", ";">>

\* `type T=fn(A, B);`
TypePlain ==
    <<"t", "y", "p", "e", " ", "T", "=", "f", "n", "(", "A", ",", " ", "B",
      ")", ";">>

\* `fn f(){1=2;fn g(){}}`
NestedFn ==
    <<"f", "n", " ", "f", "(", ")", "{", "1", "=", "2", ";", "f", "n", " ",
      "g", "(", ")", "{", "}", "}">>

MaxBodyLen == 4

MaxDecls == 3

BodyAlphabet == {"x", "1", "=", ";", "(", ")", ","}

\* a function whose body is any text over BodyAlphabet up to MaxBodyLen
BodySources ==
    {PrefixFn \o body \o SuffixFn : body \in SourcesUpTo(BodyAlphabet, MaxBodyLen)}

\* the pieces a file is made of: the text, whether it is a declaration (it
\* starts with `fn` or `type`), whether it is malformed, and how many lines
\* below its own the token is at which its error shows
Decls ==
    <<[text |-> GoodFn,    decl |-> TRUE,  bad |-> FALSE, below |-> 0],
      [text |-> GoodType,  decl |-> TRUE,  bad |-> FALSE, below |-> 0],
      [text |-> BadFn,     decl |-> TRUE,  bad |-> TRUE,  below |-> 0],
      [text |-> BadType,   decl |-> TRUE,  bad |-> TRUE,  below |-> 0],
      [text |-> Junk,      decl |-> FALSE, bad |-> TRUE,  below |-> 0],
      [text |-> OpenFn,    decl |-> TRUE,  bad |-> TRUE,  below |-> 1],
      [text |-> CascadeFn, decl |-> TRUE,  bad |-> TRUE,  below |-> 0]>>

\* the files of up to MaxDecls declarations, as sequences of indexes of Decls
DeclSeqs == UNION {[1..k -> 1..Len(Decls)] : k \in 0..MaxDecls}

\* the text of a file: each declaration on a line of its own
RECURSIVE FileOf(_)
FileOf(ds) ==
    IF ds = <<>> THEN <<>>
    ELSE Decls[Head(ds)].text \o <<"\n">> \o FileOf(Tail(ds))

DeclSources == {FileOf(ds) : ds \in DeclSeqs}

CuratedSources ==
    {TopAssignX, TopAssign1, FnAssignX, FnAssign1, FnLetAssignX,
     FnAssignLines, CallTrailing, CallPlain, TypeTrailing, TypePlain,
     NestedFn}

ParseSources ==
    {src \in BodySources \cup DeclSources \cup CuratedSources :
        scan(Scanner_new(src)).errors = <<>>}

\* Parser::new(tokens), about to enter the loop of parse
InitParse ==
    /\ file \in ParseSources
    /\ scanner = NotYet
    /\ scan_out = scan(Scanner_new(file))
    /\ parser = Parser_new(scan_out.tokens)
    /\ pc = "parse"
    /\ parse_out = NotYet
    /\ generator = NotYet
    /\ gen_out = NotYet
    /\ disk = Unwritten
    /\ rustc = FALSE
    /\ exit_code = None

NextParse == ParseDeclaration \/ ParseFinish

\* parse is a sequential loop: it keeps running until it returns
SpecParse == InitParse /\ [][NextParse]_vars /\ WF_vars(NextParse)

----------------------------------------------------------------------------
(* The parser on token lists of any shape that end with EOF: nothing, or   *)
(* the tokens of a well-formed declaration, then up to MaxTokens tokens    *)
(* over TokenAlphabet, EOF among them, then EOF                            *)

MaxTokens == 3

TokenAlphabet ==
    {Token("Fn", <<"f", "n">>, 1), Token("Type", <<"t", "y", "p", "e">>, 1),
     Token("Identifier", <<"x">>, 1), Token("LeftParen", <<"(">>, 1),
     Token("RightParen", <<")">>, 1), Token("LeftBrace", <<"{">>, 1),
     Token("RightBrace", <<"}">>, 1), Token("Semicolon", <<";">>, 1),
     Token("EOF", <<>>, 1)}

\* the tokens of a source without the EOF that ends them
TokensOf(source) ==
    LET tokens == scan(Scanner_new(source)).tokens
    IN  SubSeq(tokens, 1, Len(tokens) - 1)

TokenLists ==
    {first \o rest \o <<Token("EOF", <<>>, 1)>> :
        first \in {<<>>, TokensOf(GoodFn), TokensOf(GoodType)},
        rest \in SourcesUpTo(TokenAlphabet, MaxTokens)}

\* Parser::new(tokens), about to enter the loop of parse
InitTokens ==
    /\ file = <<>>
    /\ scanner = NotYet
    /\ scan_out = NotYet
    /\ parser \in {Parser_new(tokens) : tokens \in TokenLists}
    /\ pc = "parse"
    /\ parse_out = NotYet
    /\ generator = NotYet
    /\ gen_out = NotYet
    /\ disk = Unwritten
    /\ rustc = FALSE
    /\ exit_code = None

SpecTokens == InitTokens /\ [][NextParse]_vars /\ WF_vars(NextParse)

----------------------------------------------------------------------------
(* The parser on expression statements: chains of operands and binary or   *)
(* logical operators                                                       *)

MaxChain == 2

\* one operator of each level, and a second one of the additive level
ChainOperators ==
    {<<"|", "|">>, <<"&", "&">>, <<"=", "=">>, <<"<">>, <<"+">>, <<"-">>,
     <<"*">>}

\* the name of the operand at a position of a chain
OperandNames == <<"a", "b", "c", "d", "e">>

\* an operand: a variable, a negated variable or a call of a variable
OperandForms == {"variable", "negated", "called"}

OperandText(form, name) ==
    CASE form = "variable" -> <<name>>
      [] form = "negated"  -> <<"-", name>>
      [] form = "called"   -> <<name, "(", ")">>

\* the chains of n operators: the text of operand 1, operator 1, operand 2, ...
RECURSIVE ChainsOf(_)
ChainsOf(n) ==
    IF n = 0
    THEN {OperandText(form, OperandNames[1]) : form \in OperandForms}
    ELSE {chain \o operator \o OperandText(form, OperandNames[n + 1]) :
              chain \in ChainsOf(n - 1), operator \in ChainOperators,
              form \in OperandForms}

\* `fn f(){<chain>;}`
ChainSource(chain) == PrefixFn \o chain \o <<";">> \o SuffixFn

\* the sources of the chains of up to n operators
ChainSourcesUpTo(n) ==
    {ChainSource(chain) : chain \in UNION {ChainsOf(k) : k \in 0..n}}

\* Parser::new(tokens) on the tokens of an expression statement
InitChain ==
    /\ file \in ChainSourcesUpTo(MaxChain)
    /\ scanner = NotYet
    /\ scan_out = scan(Scanner_new(file))
    /\ parser = Parser_new(scan_out.tokens)
    /\ pc = "parse"
    /\ parse_out = NotYet
    /\ generator = NotYet
    /\ gen_out = NotYet
    /\ disk = Unwritten
    /\ rustc = FALSE
    /\ exit_code = None

SpecChain == InitChain /\ [][NextParse]_vars /\ WF_vars(NextParse)

----------------------------------------------------------------------------
(* The whole program: main on a script file *)

MaxMainLen == 2

MaxLitLen == 3

LitAlphabet == {"0", "1", ".", "\"", "a"}

\* `fn f(){<text>;}` for every text over LitAlphabet up to MaxLitLen: among
\* them the number and string literals that long
LiteralSources ==
    {PrefixFn \o text \o <<";">> \o SuffixFn :
        text \in SourcesUpTo(LitAlphabet, MaxLitLen)}

\* `fn f(){let x:Number=3.1400;let s:String="a b";}`
LiteralLets ==
    <<"f", "n", " ", "f", "(", ")", "{", "l", "e", "t", " ", "x", ":", "N",
      "u", "m", "b", "e", "r", "=", "3", ".", "1", "4", "0", "0", ";", "l",
      "e", "t", " ", "s", ":", "S", "t", "r", "i", "n", "g", "=", "\"", "a",
      " ", "b", "\"", ";", "}">>

\* `fn f(a: Number, b: Number): Number { return a + b; }`
AddFn ==
    <<"f", "n", " ", "f", "(", "a", ":", " ", "N", "u", "m", "b", "e", "r",
      ",", " ", "b", ":", " ", "N", "u", "m", "b", "e", "r", ")", ":", " ",
      "N", "u", "m", "b", "e", "r", " ", "{", " ", "r", "e", "t", "u", "r",
      "n", " ", "a", " ", "+", " ", "b", ";", " ", "}">>

\* the source text of the operators visit_binary_expr maps
BinarySymbols ==
    {<<"!", "=">>, <<"=", "=">>, <<"<", "=">>, <<"<">>, <<">", "=">>, <<">">>,
     <<"+">>, <<"-">>, <<"*">>, <<"/">>}

\* `fn f(){return a<symbol>b;}`
BinarySource(symbol) ==
    PrefixFn \o <<"r", "e", "t", "u", "r", "n", " ", "a">> \o symbol
             \o <<"b", ";">> \o SuffixFn

BinarySources == {BinarySource(symbol) : symbol \in BinarySymbols}

MainSources ==
    DeclSources \cup CuratedSources \cup SourcesUpTo(ScanAlphabet, MaxMainLen)
        \cup LiteralSources \cup {LiteralLets}
        \cup BinarySources \cup {AddFn}

\* the process has started
Init ==
    /\ file \in MainSources
    /\ pc = "main"
    /\ scanner = NotYet
    /\ scan_out = NotYet
    /\ parser = NotYet
    /\ parse_out = NotYet
    /\ generator = NotYet
    /\ gen_out = NotYet
    /\ disk = Unwritten
    /\ rustc = FALSE
    /\ exit_code = None

Next ==
    \/ MainUsage
    \/ MainReadFails
    \/ MainScan
    \/ ScanToken
    \/ ScanFinish
    \/ MainScanned
    \/ ParseDeclaration
    \/ ParseFinish
    \/ MainParsed
    \/ Generate
    \/ MainGenerated
    \/ MainWrite
    \/ MainRustc

\* the program is one sequential call chain: it runs until it exits
Spec == Init /\ [][Next]_vars /\ WF_vars(Next)

----------------------------------------------------------------------------
(* The generator on its own, on statement lists built with the constructors *)
(* of expr.rs and stmt.rs, the operators of their nodes mapped or not       *)

MaxOps == 3

VariableA == new_variable(Token("Identifier", <<"a">>, 1))

\* operator tokens: the first of each pair has a mapping in the visit method
\* of its node, the second has none
BinaryOperators == {Token("Plus", <<"+">>, 1), Token("Equal", <<"=">>, 2)}

LogicalOperators == {Token("AmpAmp", <<"&", "&">>, 1), Token("Question", <<"?">>, 3)}

UnaryOperators == {Token("Bang", <<"!">>, 1), Token("Colon", <<":">>, 4)}

\* the expressions with exactly n Logical, Binary and Unary nodes
RECURSIVE ExprsWith(_)
ExprsWith(n) ==
    IF n = 0 THEN {VariableA}
    ELSE {new_unary(operator, right) :
              operator \in UnaryOperators, right \in ExprsWith(n - 1)}
         \cup UNION {
              {new_binary(left, operator, right) :
                   left \in ExprsWith(k), operator \in BinaryOperators,
                   right \in ExprsWith(n - 1 - k)}
              \cup {new_logical(left, operator, right) :
                   left \in ExprsWith(k), operator \in LogicalOperators,
                   right \in ExprsWith(n - 1 - k)} : k \in 0..(n - 1)}

\* the statement lists of one expression statement, its expression of up to
\* n Logical, Binary and Unary nodes
StatementListsUpTo(n) ==
    {<<new_expression(expr)>> : expr \in UNION {ExprsWith(k) : k \in 0..n}}

\* Generator::new(), about to be handed a statement list
InitGen ==
    /\ file = <<>>
    /\ scanner = NotYet
    /\ scan_out = NotYet
    /\ parser = NotYet
    /\ parse_out \in {[statements |-> statements, errors |-> <<>>] :
                          statements \in StatementListsUpTo(MaxOps)}
    /\ generator = Generator_new
    /\ pc = "generate"
    /\ gen_out = NotYet
    /\ disk = Unwritten
    /\ rustc = FALSE
    /\ exit_code = None

NextGen == Generate \/ GenerateAgain

\* the calls of generate return: they run one after the other
SpecGen == InitGen /\ [][NextGen]_vars /\ WF_vars(NextGen)

----------------------------------------------------------------------------
(* Scanner claims *)

LastOf(seq) == seq[Len(seq)]

\* the number of `(` tokens of a token list that no later `)` token closed
RECURSIVE OpenDepth(_)
OpenDepth(tokens) ==
    IF tokens = <<>> THEN 0
    ELSE LET d == OpenDepth(SubSeq(tokens, 1, Len(tokens) - 1))
             k == LastOf(tokens).kind
         IN  CASE k = "LeftParen"  -> d + 1
               [] k = "RightParen" -> IF d > 0 THEN d - 1 ELSE 0
               [] OTHER            -> d

\* scan_token is about to be called on a newline (a newline inside a string
\* or a comment is consumed by the call that began the string or comment)
AtNewline == pc = "scan" /\ ~Scanner_is_at_end(scanner) /\ Scanner_peek(scanner) = "\n"

SyntheticSemicolon(line) == Token("Semicolon", <<";">>, line)

CursorInBounds ==
    /\ 0 <= scanner.start
    /\ scanner.start <= scanner.current
    /\ scanner.current <= Len(scanner.source)

OneEOFLast ==
    pc = "scanned" =>
        /\ scan_out.tokens # <<>>
        /\ \A i \in 1..Len(scan_out.tokens) :
               scan_out.tokens[i].kind = "EOF" <=> i = Len(scan_out.tokens)

\* C1: for every source, scan terminates (until it has returned a step is
\* always possible, and every step either returns or moves the cursor
\* forward, which the bound on the cursor allows finitely often),
\* 0 <= start <= current <= number of characters in every reachable state,
\* and the returned token list holds exactly one EOF token, its last element.
C1_ScanTerminatesInBounds ==
    /\ []CursorInBounds
    /\ []OneEOFLast
    /\ [](pc = "scanned" \/ ENABLED NextScan)
    /\ [][pc = "scan" =>
             pc' = "scanned" \/ scanner'.current > scanner.current]_vars

\* a scan of a full-length source has returned, a comment having run to the
\* end of the source
C1_Witness ==
    /\ pc = "scanned"
    /\ Len(file) = MaxSrcLen
    /\ file[MaxSrcLen - 1] = "/" /\ file[MaxSrcLen] = "/"
    /\ file[1] = "a"
    /\ Len(scan_out.tokens) > 1

\* C2 as stated: a newline outside any open parenthesis appends exactly one
\* `;` token unless the last token emitted is `{`, `}` or `;`, in which case
\* it appends none; nothing else suppresses the insertion.
C2_Original ==
    [][(AtNewline /\ OpenDepth(scanner.tokens) = 0) =>
          IF scanner.tokens # <<>>
             /\ LastOf(scanner.tokens).kind \in {"LeftBrace", "RightBrace", "Semicolon"}
          THEN scanner'.tokens = scanner.tokens
          ELSE scanner'.tokens =
                   Append(scanner.tokens, SyntheticSemicolon(scanner.line))]_vars

\* C2 amended: a newline outside any open parenthesis appends exactly one
\* `;` token unless no token has been emitted yet or the last token emitted
\* is `{`, `}` or `;`, in which cases it appends none.
C2_NewlineTerminator ==
    [][(AtNewline /\ OpenDepth(scanner.tokens) = 0) =>
          IF scanner.tokens = <<>>
             \/ LastOf(scanner.tokens).kind \in {"LeftBrace", "RightBrace", "Semicolon"}
          THEN scanner'.tokens = scanner.tokens
          ELSE scanner'.tokens =
                   Append(scanner.tokens, SyntheticSemicolon(scanner.line))]_vars

\* the newline after an identifier has just been processed and the
\* terminator stands behind the identifier
C2_Witness ==
    /\ pc = "scan"
    /\ scanner.current >= 2
    /\ scanner.source[scanner.current] = "\n"
    /\ scanner.source[scanner.current - 1] = "a"
    /\ Len(scanner.tokens) >= 2
    /\ LastOf(scanner.tokens) = SyntheticSemicolon(scanner.line - 1)
    /\ scanner.tokens[Len(scanner.tokens) - 1].kind = "Identifier"

\* C3: a newline processed while some scanned `(` has not been closed by a
\* later `)` appends no token, whatever `(` and `)` were scanned before it.
C3_NoTerminatorInsideParens ==
    [][(AtNewline /\ OpenDepth(scanner.tokens) > 0) =>
          scanner'.tokens = scanner.tokens]_vars

\* scan_token is about to be called on a `"` that no later `"` closes
AtUnterminatedString ==
    /\ pc = "scan"
    /\ ~Scanner_is_at_end(scanner)
    /\ Scanner_peek(scanner) = "\""
    /\ \A i \in (scanner.current + 2)..Len(scanner.source) :
           scanner.source[i] # "\""

\* C4: a string the source ends in adds exactly one "Unterminated string."
\* error, whose line is the line of the opening `"`, adds no token, and
\* scanning ends.
C4_UnterminatedStringLine ==
    [][AtUnterminatedString =>
          /\ scanner'.errors =
                 Append(scanner.errors,
                        SyntaxError(scanner.line, "", "Unterminated string."))
          /\ scanner'.tokens = scanner.tokens
          /\ Scanner_is_at_end(scanner')]_vars

EndOfFile(line) == Token("EOF", <<>>, line)

\* C16: at end of input the scanner flushes a pending terminator before EOF:
\* in every returned token list with more than one token the token before EOF
\* is `{`, `}` or `;`; when the last token scanned is none of these a `;`
\* token with the current line is appended before EOF (so a final statement
\* without newline or `;` is terminated), otherwise nothing is; a source
\* producing no tokens yields the list [EOF] only.
C16_TerminatorBeforeEOF ==
    /\ [](pc = "scanned" =>
             LET n == Len(scan_out.tokens)
             IN  /\ n >= 1
                 /\ n > 1 => scan_out.tokens[n - 1].kind \in NoSemicolonAfter)
    /\ [][(pc = "scan" /\ pc' = "scanned") =>
              scan_out'.tokens =
                  IF scanner.tokens = <<>>
                  THEN <<EndOfFile(scanner.line)>>
                  ELSE IF LastOf(scanner.tokens).kind
                              \in {"LeftBrace", "RightBrace", "Semicolon"}
                  THEN Append(scanner.tokens, EndOfFile(scanner.line))
                  ELSE scanner.tokens
                           \o <<SyntheticSemicolon(scanner.line),
                                EndOfFile(scanner.line)>>]_vars

\* a source that ends in an identifier has been scanned: a `;` stands between
\* the identifier and EOF
C16_Witness ==
    /\ pc = "scanned"
    /\ Len(file) = MaxSrcLen
    /\ file[MaxSrcLen] = "a"
    /\ Len(scan_out.tokens) >= 3
    /\ scan_out.tokens[Len(scan_out.tokens) - 2].kind = "Identifier"
    /\ scan_out.tokens[Len(scan_out.tokens) - 1] = SyntheticSemicolon(1)
    /\ LastOf(scan_out.tokens) = EndOfFile(1)

\* scan_token is about to be called on the character c
AtChar(c) == pc = "scan" /\ ~Scanner_is_at_end(scanner) /\ Scanner_peek(scanner) = c

\* the kinds of `=`, `!`, `<`, `>` alone and followed by `=`
SingleKind(c) ==
    CASE c = "=" -> "Equal"
      [] c = "!" -> "Bang"
      [] c = "<" -> "Less"
      [] c = ">" -> "Greater"

DoubleKind(c) ==
    CASE c = "=" -> "EqualEqual"
      [] c = "!" -> "BangEqual"
      [] c = "<" -> "LessEqual"
      [] c = ">" -> "GreaterEqual"
      [] c = "&" -> "AmpAmp"
      [] c = "|" -> "BarBar"

\* the call of scan_token appends one token of the kind over the next
\* `length` characters and nothing else
EmitsOnly(kind, length) ==
    /\ scanner'.tokens =
           Append(scanner.tokens,
                  Token(kind,
                        SubSeq(scanner.source, scanner.current + 1,
                               scanner.current + length),
                        scanner.line))
    /\ scanner'.errors = scanner.errors
    /\ scanner'.current = scanner.current + length
    /\ scanner'.line = scanner.line

UnexpectedCharacter(line) == SyntaxError(line, "", "Unexpected character.")

\* the call of scan_token reports the character under the cursor, consumes
\* it alone and appends no token
ReportsOnly ==
    /\ scanner'.errors = Append(scanner.errors, UnexpectedCharacter(scanner.line))
    /\ scanner'.tokens = scanner.tokens
    /\ scanner'.current = scanner.current + 1
    /\ scanner'.line = scanner.line
    /\ scanner'.parens = scanner.parens

\* C17: two-character operators are matched greedily: at `=`, `!`, `<`, `>`
\* the scanner emits the two-character token exactly when the next character
\* is `=`, otherwise the one-character token; at `&` and `|` it emits `&&`
\* and `||` when the character is doubled, and otherwise reports "Unexpected
\* character.", emits no token and consumes that one character only.
C17_GreedyOperators ==
    [][/\ \A c \in {"=", "!", "<", ">"} :
             AtChar(c) =>
                 IF Scanner_peek_next(scanner) = "="
                 THEN EmitsOnly(DoubleKind(c), 2)
                 ELSE EmitsOnly(SingleKind(c), 1)
       /\ \A c \in {"&", "|"} :
             AtChar(c) =>
                 IF Scanner_peek_next(scanner) = c
                 THEN EmitsOnly(DoubleKind(c), 2)
                 ELSE ReportsOnly]_vars

\* `<==` has been scanned: `<=`, then `=`, then the terminator and EOF
C17_Witness ==
    /\ pc = "scanned"
    /\ file = <<"<", "=", "=">>
    /\ scan_out.tokens =
           <<Token("LessEqual", <<"<", "=">>, 1), Token("Equal", <<"=">>, 1),
             SyntheticSemicolon(1), EndOfFile(1)>>
    /\ scan_out.errors = <<>>

\* the characters scan_token has an arm for, `&` and `|` when doubled
KnownCharacters ==
    {"(", ")", "{", "}", ",", "+", "-", "*", "/", "?", ":", ";", "!", "=", "<",
     ">", "\n", " ", "\r", "\t", "\""} \cup Digits \cup Letters

\* scan_token is about to be called on a character it has no token for
AtUnknownCharacter ==
    /\ pc = "scan"
    /\ ~Scanner_is_at_end(scanner)
    /\ LET c == Scanner_peek(scanner)
       IN  \/ c \notin KnownCharacters \cup {"&", "|"}
           \/ c \in {"&", "|"} /\ Scanner_peek_next(scanner) # c

\* the source with the character under the cursor replaced by a space
Blanked(s) == [s.source EXCEPT ![s.current + 1] = " "]

\* C18: an unknown character never stops scanning: an unknown character
\* outside strings and comments adds exactly one "Unexpected character."
\* error with the current line, consumes exactly that character and emits no
\* token, scanning goes on behind it, and the tokens scan returns are those
\* it returns for the source with that character replaced by a space.
C18_UnknownCharacter ==
    [][AtUnknownCharacter =>
          /\ ReportsOnly
          /\ pc' = "scan"
          /\ scan(scanner').tokens = scan(Scanner_new(Blanked(scanner))).tokens]_vars

\* `1#1` has been scanned: one error, and the tokens of `1 1`
C18_Witness ==
    /\ pc = "scanned"
    /\ file = <<"1", "#", "1">>
    /\ scan_out.errors = <<UnexpectedCharacter(1)>>
    /\ scan_out.tokens =
           <<Token("Number", <<"1">>, 1), Token("Number", <<"1">>, 1),
             SyntheticSemicolon(1), EndOfFile(1)>>

----------------------------------------------------------------------------
(* Parser claims *)

\* what scanning and then parsing a source returns
ParseOf(src) == parse(Parser_new(scan(Scanner_new(src)).tokens))

\* C5: a comma-separated list accepts a trailing comma: `f(a, b,)` parses
\* without error to the Call node of `f(a, b)`, and `fn(A, B,)` parses without
\* error to the Function variant of `fn(A, B)`.
C5_TrailingCommaAccepted ==
    pc = "parsed" =>
        /\ file = CallTrailing =>
               /\ parse_out.errors = <<>>
               /\ parse_out.statements = ParseOf(CallPlain).statements
        /\ file = TypeTrailing =>
               /\ parse_out.errors = <<>>
               /\ parse_out.statements = ParseOf(TypePlain).statements

\* the declaration the loop of parse is about to parse fails
AtFailingDeclaration ==
    /\ pc = "parse"
    /\ ~Parser_is_at_end(parser.tokens, parser.current)
    /\ ~declaration(parser.tokens, parser.current).ok

DeclarationStart == {"Fn", "Type", "EOF"}

\* C6: on a parse error in the top-level loop the parser records that error
\* exactly once and no statement, discards tokens from the one under the
\* cursor on until the token under the cursor is the next `fn`, `type` or EOF
\* (so it discards no `fn` and no `type`), and goes on parsing declarations at
\* that token, so that the errors of the declarations after it are collected.
C6_PanicModeRecovery ==
    [][AtFailingDeclaration =>
          LET t == parser.tokens
              failed == declaration(t, parser.current)
          IN  /\ parser'.errors = Append(parser.errors, failed.err)
              /\ parser'.statements = parser.statements
              /\ parser'.tokens = t
              /\ parser'.current >= failed.cur
              /\ Parser_peek(t, parser'.current).kind \in DeclarationStart
              /\ \A i \in failed.cur..(parser'.current - 1) :
                     Parser_peek(t, i).kind \notin DeclarationStart
              /\ pc' = "parse"]_vars

\* the positions of the malformed declarations of a file, in order
RECURSIVE BadPositions(_, _)
BadPositions(ds, i) ==
    IF i > Len(ds) THEN <<>>
    ELSE (IF Decls[ds[i]].bad THEN <<i>> ELSE <<>>) \o BadPositions(ds, i + 1)

\* C7: for a file of declarations of which k are malformed, parse returns
\* exactly k errors, one per malformed declaration, in source order, each
\* with the line of the token at which that declaration's error shows.
C7_OneErrorPerMalformedDeclaration ==
    pc = "parsed" =>
        \A ds \in DeclSeqs :
            (file = FileOf(ds) /\ \A i \in 1..Len(ds) : Decls[ds[i]].decl) =>
                LET bad == BadPositions(ds, 1)
                IN  /\ Len(parse_out.errors) = Len(bad)
                    /\ \A j \in 1..Len(bad) :
                           parse_out.errors[j].line =
                               bad[j] + Decls[ds[bad[j]]].below

\* the cursors of a token list at which `left = right` stands, both sides
\* parsing as expressions
AssignmentCursors(t) ==
    {c \in 0..(Len(t) - 1) :
        LET left == expression(t, c)
        IN  /\ left.ok
            /\ Parser_compare(t, left.cur, {"Equal"})
            /\ expression(t, left.cur + 1).ok}

InvalidTarget(equals) ==
    SyntaxError(equals.line, " at '='", "Invalid assignment target.")

\* C8 as stated: when an expression is followed by `=` and the right-hand side
\* parses, the statement is an Assignment if and only if the left expression
\* is a bare Variable; otherwise the parser fails with "Invalid assignment
\* target." with the line and location of the `=` token.
C8_Original ==
    pc = "parsed" =>
        \A c \in AssignmentCursors(parser.tokens) :
            LET t == parser.tokens
                left == expression(t, c)
                stmt == assignment_statement(t, c)
            IN  IF left.val.node = "Variable"
                THEN stmt.ok /\ stmt.val.node = "Assignment"
                ELSE ~stmt.ok /\ stmt.err = InvalidTarget(Parser_peek(t, left.cur))

\* C8 amended: when an expression is followed by `=` and the right-hand side
\* parses, the statement is an Assignment (of the right-hand side to the
\* variable) if and only if the left expression is a bare Variable and the
\* right-hand side is followed by `;`; a bare Variable whose right-hand side
\* is not followed by `;` fails with "Expect ';' after assignment." at the
\* token after the right-hand side; any other left expression fails with
\* "Invalid assignment target." with the line and location of the `=` token.
C8_AssignmentTarget ==
    pc = "parsed" =>
        \A c \in AssignmentCursors(parser.tokens) :
            LET t == parser.tokens
                left == expression(t, c)
                right == expression(t, left.cur + 1)
                stmt == assignment_statement(t, c)
            IN  IF left.val.node = "Variable"
                THEN IF Parser_peek(t, right.cur).kind = "Semicolon"
                     THEN /\ stmt.ok
                          /\ stmt.val = new_assignment(left.val.name, right.val)
                          /\ stmt.cur = right.cur + 1
                     ELSE /\ ~stmt.ok
                          /\ stmt.err.message = "Expect ';' after assignment."
                          /\ stmt.err.line = Parser_peek(t, right.cur).line
                ELSE ~stmt.ok /\ stmt.err = InvalidTarget(Parser_peek(t, left.cur))

\* the parser has returned the error of `1 = (\n2)\n` in a function body: it
\* is on line 1, the line of the `=`, not on line 2
C8_Witness ==
    /\ pc = "parsed"
    /\ file = FnAssignLines
    /\ parse_out.statements = <<>>
    /\ parse_out.errors =
           <<SyntaxError(1, " at '='", "Invalid assignment target.")>>

\* C9 as stated: scanning and parsing `x = 2;` returns an Assignment statement
\* and no syntax errors; scanning and parsing `1 = 2;` returns a syntax error
\* with message "Invalid assignment target.".
C9_Original ==
    pc = "parsed" =>
        /\ file = TopAssignX =>
               /\ parse_out.errors = <<>>
               /\ Len(parse_out.statements) = 1
               /\ parse_out.statements[1].node = "Assignment"
        /\ file = TopAssign1 =>
               \E i \in 1..Len(parse_out.errors) :
                   parse_out.errors[i].message = "Invalid assignment target."

TopLevelError(lexeme) ==
    <<SyntaxError(1, " at '" \o lexeme \o "'",
                  "Expect function or type declaration.")>>

\* the statements of the body of the only declaration parse returned
OnlyBody == parse_out.statements[1].body.statements

\* C9 amended: as a statement of a function body, `x = 2;` parses to an
\* Assignment statement and no syntax errors, whether or not `x` was declared
\* before, and `1 = 2;` returns the syntax error "Invalid assignment target.";
\* at top level parse accepts declarations only, and returns "Expect function
\* or type declaration." for `x = 2;` and for `1 = 2;`.
C9_AssignmentInBody ==
    pc = "parsed" =>
        /\ file = FnAssignX =>
               /\ parse_out.errors = <<>>
               /\ Len(parse_out.statements) = 1
               /\ Len(OnlyBody) = 1
               /\ OnlyBody[1].node = "Assignment"
               /\ Str(OnlyBody[1].name.lexeme) = "x"
        /\ file = FnLetAssignX =>
               /\ parse_out.errors = <<>>
               /\ Len(parse_out.statements) = 1
               /\ Len(OnlyBody) = 2
               /\ OnlyBody[1].node = "Let"
               /\ OnlyBody[2].node = "Assignment"
        /\ file = FnAssign1 =>
               /\ parse_out.statements = <<>>
               /\ parse_out.errors =
                      <<SyntaxError(1, " at '='", "Invalid assignment target.")>>
        /\ file = TopAssignX =>
               /\ parse_out.statements = <<>>
               /\ parse_out.errors = TopLevelError("x")
        /\ file = TopAssign1 =>
               /\ parse_out.statements = <<>>
               /\ parse_out.errors = TopLevelError("1")

\* parse has returned the Assignment of `fn f(){x = 2;}`
C9_Witness ==
    /\ pc = "parsed"
    /\ file = FnAssignX
    /\ parse_out.errors = <<>>
    /\ OnlyBody[1] =
           new_assignment(Token("Identifier", <<"x">>, 1),
                          new_literal([value |-> "Number", text |-> <<"2">>]))

\* the level of an expression: that of its operator for a Logical or Binary
\* node, from logical-or, the loosest, up to multiplicative, then unary, call
\* and the primary expressions
Level(expr) ==
    CASE expr.node = "Logical" ->
             IF expr.operator.kind = "BarBar" THEN 1 ELSE 2
      [] expr.node = "Binary" ->
             (CASE expr.operator.kind \in {"BangEqual", "EqualEqual"} -> 3
                [] expr.operator.kind \in {"Greater", "GreaterEqual", "Less",
                                           "LessEqual"} -> 4
                [] expr.operator.kind \in {"Minus", "Plus"} -> 5
                [] OTHER -> 6)
      [] expr.node = "Unary" -> 7
      [] expr.node = "Call"  -> 8
      [] OTHER               -> 9

\* every operator of the expression has operands of the levels precedence and
\* left-associativity give: the left operand of a binary or logical operator
\* is of its level or tighter, the right operand strictly tighter; the
\* operand of a unary operator is unary or tighter; the callee of a call is a
\* call or a primary expression
RECURSIVE WellNested(_)
WellNested(expr) ==
    CASE expr.node \in {"Logical", "Binary"} ->
             /\ Level(expr.left) >= Level(expr)
             /\ Level(expr.right) > Level(expr)
             /\ WellNested(expr.left)
             /\ WellNested(expr.right)
      [] expr.node = "Unary" ->
             Level(expr.right) >= 7 /\ WellNested(expr.right)
      [] expr.node = "Call" ->
             /\ Level(expr.callee) >= 8
             /\ WellNested(expr.callee)
             /\ \A i \in 1..Len(expr.arguments) : WellNested(expr.arguments[i])
      [] expr.node = "Grouping" -> WellNested(expr.expression)
      [] OTHER -> TRUE

\* the lexemes of the tokens an expression without literals was built from,
\* in source order
RECURSIVE Flatten(_), FlattenAll(_)
Flatten(expr) ==
    CASE expr.node \in {"Logical", "Binary"} ->
             Flatten(expr.left) \o <<expr.operator.lexeme>> \o Flatten(expr.right)
      [] expr.node = "Unary" -> <<expr.operator.lexeme>> \o Flatten(expr.right)
      [] expr.node = "Call" ->
             Flatten(expr.callee) \o <<(<<"(">>)>> \o FlattenAll(expr.arguments)
                 \o <<(<<")">>)>>
      [] expr.node = "Grouping" ->
             <<(<<"(">>)>> \o Flatten(expr.expression) \o <<(<<")">>)>>
      [] expr.node = "Variable" -> <<expr.name.lexeme>>

FlattenAll(exprs) ==
    IF exprs = <<>> THEN <<>>
    ELSE IF Len(exprs) = 1 THEN Flatten(exprs[1])
    ELSE Flatten(exprs[1]) \o <<(<<",">>)>> \o FlattenAll(Tail(exprs))

\* the lexemes of the tokens between `fn f(){` and `;}`
ChainLexemes(tokens) ==
    [i \in 1..(Len(tokens) - 8) |-> tokens[i + 5].lexeme]

Operand(name) == new_variable(Token("Identifier", <<name>>, 1))

Operator(kind, lexeme) == Token(kind, lexeme, 1)

\* the expression of the only statement of the body of the only declaration
OnlyChain == parse_out.statements[1].body.statements[1].expression

\* C15: expression parsing respects precedence and left-associativity: the
\* tree of a chain of operands and operators holds its tokens in source
\* order, operators of one level group to the left, and an operator of a
\* higher level binds tighter, in the order logical-or < logical-and <
\* equality < comparison < additive < multiplicative < unary < call
\* (`a - b + c` is (a - b) + c, `a + b * c` is a + (b * c)).
C15_PrecedenceAndAssociativity ==
    pc = "parsed" =>
        /\ parse_out.errors = <<>>
        /\ Len(parse_out.statements) = 1
        /\ Len(parse_out.statements[1].body.statements) = 1
        /\ parse_out.statements[1].body.statements[1].node = "Expression"
        /\ Flatten(OnlyChain) = ChainLexemes(parser.tokens)
        /\ WellNested(OnlyChain)
        /\ file = ChainSource(<<"a", "-", "b", "+", "c">>) =>
               OnlyChain =
                   new_binary(new_binary(Operand("a"), Operator("Minus", <<"-">>),
                                         Operand("b")),
                              Operator("Plus", <<"+">>), Operand("c"))
        /\ file = ChainSource(<<"a", "+", "b", "*", "c">>) =>
               OnlyChain =
                   new_binary(Operand("a"), Operator("Plus", <<"+">>),
                              new_binary(Operand("b"), Operator("Star", <<"*">>),
                                         Operand("c")))

\* `a + b * c` has been parsed to a + (b * c)
C15_Witness ==
    /\ pc = "parsed"
    /\ file = ChainSource(<<"a", "+", "b", "*", "c">>)
    /\ OnlyChain.node = "Binary"
    /\ OnlyChain.operator.kind = "Plus"
    /\ OnlyChain.right.node = "Binary"
    /\ OnlyChain.right.operator.kind = "Star"

\* the cursor at the first EOF token of a token list
FirstEOF(tokens) ==
    CHOOSE c \in 0..(Len(tokens) - 1) :
        /\ tokens[c + 1].kind = "EOF"
        /\ \A b \in 0..(c - 1) : tokens[b + 1].kind # "EOF"

ParserCursorInBounds ==
    /\ 0 <= parser.current
    /\ parser.current <= FirstEOF(parser.tokens)

\* an iteration of the loop of parse: the cursor declaration returns with is
\* in bounds (the cursor only grows during the call, so it is in bounds all
\* through it), the advance that opens synchronize calls previous with a
\* cursor of 1 or more, and the iteration leaves the cursor further on
ParseIteration ==
    (pc = "parse" /\ ~Parser_is_at_end(parser.tokens, parser.current)) =>
        LET t == parser.tokens
            result == declaration(t, parser.current)
        IN  /\ parser.current <= result.cur
            /\ result.cur <= FirstEOF(t)
            /\ result.ok => result.cur > parser.current
            /\ ~result.ok => Parser_advance(t, result.cur) >= 1
            /\ parser'.current > parser.current
            /\ parser'.current >= result.cur

\* the loop of parse can go on: at EOF it returns, before EOF the next
\* iteration moves the cursor forward
ParseCanStep ==
    pc = "parse" =>
        IF Parser_is_at_end(parser.tokens, parser.current)
        THEN ENABLED ParseFinish
        ELSE parse_step(parser).current > parser.current

\* C19: for every token list that ends with EOF, parse terminates (until it
\* has returned a step is always possible, and every iteration moves the
\* cursor forward, which the bound on the cursor allows finitely often) and
\* the cursor stays in bounds: 0 <= current <= index of the first EOF in
\* every reachable state, previous() is never called with current = 0, and
\* each iteration of the top-level loop (a declaration, or an error followed
\* by synchronize) advances the cursor by at least one token.
C19_ParseTerminatesInBounds ==
    /\ []ParserCursorInBounds
    /\ []ParseCanStep
    /\ [][ParseIteration]_vars

\* parse has returned for a well-formed declaration followed by an EOF and
\* two more tokens: one statement, the cursor on the first EOF
C19_Witness ==
    /\ pc = "parsed"
    /\ Len(parser.tokens) = Len(TokensOf(GoodFn)) + MaxTokens + 1
    /\ parser.current = Len(TokensOf(GoodFn))
    /\ parser.current = FirstEOF(parser.tokens)
    /\ Len(parse_out.statements) = 1

\* the statements are Function or Type nodes, and their name tokens are on
\* lines further and further down (no two declarations of these files that
\* parse share a line)
DeclarationsInOrder(statements) ==
    /\ \A i \in 1..Len(statements) : statements[i].node \in {"Function", "Type"}
    /\ \A i, j \in 1..Len(statements) :
           i < j => statements[i].name.line < statements[j].name.line

\* an iteration of the loop of parse adds to one list only: the statement
\* declaration returned, whole, which is a Function or a Type named by the
\* token after the keyword the iteration started at, or the error declaration
\* returned, and then nothing of what was parsed before the error
ParseAddsOne ==
    (pc = "parse" /\ ~Parser_is_at_end(parser.tokens, parser.current)) =>
        LET t == parser.tokens
            result == declaration(t, parser.current)
        IN  IF result.ok
            THEN /\ parser'.statements = Append(parser.statements, result.val)
                 /\ parser'.errors = parser.errors
                 /\ result.val.node \in {"Function", "Type"}
                 /\ result.val.node = "Function" <=>
                        Parser_peek(t, parser.current).kind = "Fn"
                 /\ result.val.name = Parser_peek(t, parser.current + 1)
            ELSE /\ parser'.statements = parser.statements
                 /\ parser'.errors = Append(parser.errors, result.err)

\* what parse returns is what its iterations collected
ParseReturnsLists ==
    pc = "parsed" =>
        /\ parse_out.statements = parser.statements
        /\ parse_out.errors = parser.errors
        /\ DeclarationsInOrder(parse_out.statements)

----------------------------------------------------------------------------
(* Generator claims *)

\* whether the visit method of a Logical, Binary or Unary node finds no
\* mapping for the node's operator
Unmapped(expr) ==
    CASE expr.node = "Logical" -> logical_operator(expr.operator.kind) = None
      [] expr.node = "Binary"  -> binary_operator(expr.operator.kind) = None
      [] expr.node = "Unary"   -> unary_operator(expr.operator.kind) = None
      [] OTHER                 -> FALSE

\* the number of unmapped nodes of an expression built of Logical, Binary
\* and Unary nodes whose operator token is on a line: the node itself, its
\* descendants and their siblings
RECURSIVE UnmappedOn(_, _)
UnmappedOn(expr, line) ==
    (IF Unmapped(expr) /\ expr.operator.line = line THEN 1 ELSE 0)
    + (IF expr.node \in {"Logical", "Binary"}
       THEN UnmappedOn(expr.left, line) + UnmappedOn(expr.right, line)
       ELSE IF expr.node = "Unary" THEN UnmappedOn(expr.right, line)
       ELSE 0)

OperatorLines == 1..4

\* the expression of the one statement handed to the generator
OnlyExpression == parse_out.statements[1].expression

UnexpectedOperators(errors, line) ==
    {i \in 1..Len(errors) :
        errors[i] = GenerateError(line, "Unexpected operator.")}

\* C11: generate returns text for every AST; every Logical, Binary or Unary
\* node whose operator has no mapping contributes exactly one error
\* ("Unexpected operator.", line of the operator token), wherever it stands in
\* the AST (under, beside or above another unmapped node), no other error is
\* returned, and an unmapped node renders as `()`.
C11_UnmappedOperatorErrors ==
    pc = "generated" =>
        /\ gen_out.output \in STRING
        /\ \A line \in OperatorLines :
               Cardinality(UnexpectedOperators(gen_out.errors, line))
                   = UnmappedOn(OnlyExpression, line)
        /\ \A i \in 1..Len(gen_out.errors) :
               \E line \in OperatorLines :
                   i \in UnexpectedOperators(gen_out.errors, line)
        /\ Unmapped(OnlyExpression) => gen_out.output = RUNTIME \o "();"

\* the text between `fn f(){` and `;}` of a file of LiteralSources
LiteralText(source) ==
    SubSeq(source, Len(PrefixFn) + 1, Len(source) - Len(SuffixFn) - 1)

\* the tokens are those of `fn f(){<literal>;}` with one Number or String
\* token for the literal
OneLiteralToken(tokens) ==
    /\ Len(tokens) = 9
    /\ tokens[6].kind \in {"Number", "String"}

\* C12: literal text round-trips through scan -> parse -> generate: the text
\* generated for a Number or String token that becomes a Literal expression is
\* the token's lexeme, which is its source text, character for character
\* (`3.1400` stays `3.1400`, a string keeps its quotes and contents).
C12_LiteralRoundTrip ==
    pc = "generated" =>
        /\ (file \in LiteralSources /\ OneLiteralToken(scan_out.tokens)) =>
               /\ scan_out.tokens[6].lexeme = LiteralText(file)
               /\ gen_out.errors = <<>>
               /\ gen_out.output =
                      RUNTIME \o "fn f() -> () { "
                              \o Str(LiteralText(file)) \o "; }"
        /\ file = LiteralLets =>
               gen_out.output =
                   RUNTIME \o "fn f() -> () { let mut x: Number = 3.1400; "
                           \o "let mut s: String = \"a b\"; }"
        /\ \A i \in 1..Len(scan_out.tokens) :
               scan_out.tokens[i].kind \in {"Number", "String"} =>
                   LET literal == primary_expression(scan_out.tokens, i - 1)
                   IN  /\ literal.ok
                       /\ literal.val.node = "Literal"
                       /\ Expr_accept(literal.val, <<>>).text
                              = Str(scan_out.tokens[i].lexeme)

\* `fn f(){1.0;}` has been generated: the number kept its fraction
C12_Witness ==
    /\ pc = "generated"
    /\ file = PrefixFn \o <<"1", ".", "0", ";">> \o SuffixFn
    /\ gen_out.output = RUNTIME \o "fn f() -> () { 1.0; }"

NumberType(line) == new_literal_variant(Token("Identifier", <<"N", "u", "m", "b", "e", "r">>, line))

\* C13: `fn f(a: Number, b: Number): Number { return a + b; }` parses to
\* exactly one Function declaration with two parameters and output `Number`
\* and no errors; a Binary node with a mapped operator lowers to
\* `(<left> <op> <right>)`, so the generated text holds `(a + b)`.
C13_FunctionAndBinaryLowering ==
    /\ (parse_out # NotYet /\ file = AddFn) =>
           /\ parse_out.errors = <<>>
           /\ Len(parse_out.statements) = 1
           /\ parse_out.statements[1].node = "Function"
           /\ Str(parse_out.statements[1].name.lexeme) = "f"
           /\ Len(parse_out.statements[1].parameters) = 2
           /\ Str(parse_out.statements[1].parameters[1][1].lexeme) = "a"
           /\ Str(parse_out.statements[1].parameters[2][1].lexeme) = "b"
           /\ \A i \in 1..2 :
                  parse_out.statements[1].parameters[i][2] = NumberType(1)
           /\ parse_out.statements[1].output = Some(NumberType(1))
    /\ (pc = "generated" /\ file = AddFn) =>
           /\ gen_out.errors = <<>>
           /\ gen_out.output =
                  RUNTIME \o "fn f(a: Number, b: Number) -> Number "
                          \o "{ return (a + b); }"
    /\ pc = "generated" =>
           \A symbol \in BinarySymbols :
               file = BinarySource(symbol) =>
                   /\ gen_out.errors = <<>>
                   /\ gen_out.output =
                          RUNTIME \o "fn f() -> () { return (a "
                                  \o Str(symbol) \o " b); }"

\* the declaration of the claim has been generated
C13_Witness ==
    /\ pc = "generated"
    /\ file = AddFn
    /\ Len(parse_out.statements) = 1
    /\ gen_out.output =
           RUNTIME \o "fn f(a: Number, b: Number) -> Number { return (a + b); }"

\* C14: generate is deterministic and leaves no state behind: a second call
\* on the same statement list, on the same Generator or on a new one, returns
\* the text and the error list the first call returned (the errors of the
\* first call are not carried into the second), and after a call the
\* Generator holds no errors.
C14_GenerateTwice ==
    /\ [][(pc = "generated" /\ pc' = "regenerated") =>
              /\ gen_out'.output = gen_out.output
              /\ gen_out'.errors = gen_out.errors
              /\ generator' = generator]_vars
    /\ [](pc \in {"generated", "regenerated"} => generator = Generator_new)

\* the second call has returned the two errors the first call returned
C14_Witness ==
    /\ pc = "regenerated"
    /\ Len(gen_out.errors) = 2
    /\ gen_out.errors[1] # gen_out.errors[2]
    /\ generator = Generator_new

\* the texts of the parameters of a function type, each lowered on its own
ParameterTexts(variant_) ==
    [i \in 1..Len(variant_.parameters) |->
        Variant_accept(variant_.parameters[i], <<>>).text]

\* the text of the output of a function type, `()` when it has none
OutputText(variant_) ==
    IF variant_.output = None THEN "()"
    ELSE Variant_accept(variant_.output.some, <<>>).text

\* C20: a function type with parameters p1..pn lowers to
\* `fn(p1, ..., pn) -> out`, the parameters separated by `, ` as the
\* parameters of a function declaration and the arguments of a call are, and
\* an absent output lowers to `()`: `type T=fn(A, B);` lowers to
\* `type T = fn(A, B) -> ();`.
C20_FunctionTypeLowering ==
    pc = "generated" =>
        /\ file = TypePlain =>
               gen_out.output = RUNTIME \o "type T = fn(A, B) -> ();"
        /\ \A i \in 1..Len(parse_out.statements) :
               LET stmt == parse_out.statements[i]
               IN  (stmt.node = "Type" /\ stmt.variant.node = "FunctionVariant") =>
                       Variant_accept(stmt.variant, <<>>).text =
                           "fn(" \o join(ParameterTexts(stmt.variant), ", ")
                                 \o ") -> " \o OutputText(stmt.variant)

----------------------------------------------------------------------------
(* Driver claims *)

Started(stage) == stage # NotYet

\* the diagnostics a stage returned, none while it has not returned
Diagnostics(out) == IF out = NotYet THEN <<>> ELSE out.errors

AnyDiagnostics ==
    \/ Diagnostics(scan_out) # <<>>
    \/ Diagnostics(parse_out) # <<>>
    \/ Diagnostics(gen_out) # <<>>

\* C10: in scan -> parse -> generate -> write -> compile a stage is started
\* only if every earlier stage returned no diagnostics; once a stage has
\* returned diagnostics the process exits with status 1 (it does nothing else
\* before it does), the output file is never written and the external
\* compiler never invoked.
C10_StagesStopOnDiagnostics ==
    /\ Started(parser) => Started(scan_out) /\ scan_out.errors = <<>>
    /\ Started(generator) =>
           /\ Started(parser) /\ Started(parse_out)
           /\ parse_out.errors = <<>>
    /\ disk # Unwritten =>
           /\ Started(generator) /\ Started(gen_out)
           /\ gen_out.errors = <<>>
           /\ disk = gen_out.output
    /\ rustc => disk # Unwritten
    /\ AnyDiagnostics =>
           /\ disk = Unwritten
           /\ ~rustc
           /\ pc \in {"scanned", "parsed", "generated", "exit"}
           /\ pc = "exit" => exit_code = Some(1)
           /\ Diagnostics(scan_out) # <<>> => ~Started(parser)
           /\ Diagnostics(parse_out) # <<>> => ~Started(generator)

\* the parser returned an error and the process has exited with status 1
C10_Witness ==
    /\ pc = "exit"
    /\ exit_code = Some(1)
    /\ Started(parse_out)
    /\ parse_out.errors # <<>>
    /\ disk = Unwritten
    /\ ~rustc

====
